---- MODULE Spec2Model ----
(***************************************************************************)
(* Verification model of homeassistant-barcode-scanner.                    *)
(*                                                                         *)
(* The specifications of this module:                                       *)
(*   SpecSession  one BarcodeScanner session (connectionManager, reader    *)
(*                goroutine, HIDProcessor, Stop) with its callbacks        *)
(*   SpecManager  ScannerManager.Start / Stop over the configured scanners *)
(*   SpecBridge   Integration + MQTT Client + broker + ServiceManager      *)
(***************************************************************************)
EXTENDS Integers, Sequences, FiniteSets, TLC

\* ------------------------------------------------------------------ bounds
MaxEpochs == 2
MaxReads == 2
MaxStopCalls == 2
MaxConfigs == 2
MaxPublishes == 2
MaxConnections == 3
MaxKeys == 3
MaxScans == 1
MaxSignals == 4
MaxDevices == 3
MaxRetries == 3
MaxDelay == 3

\* ------------------------------------------------------- program constants
hidKeyEnter == 40
hidKeyTab == 43
hidModifierShift == 34
hidKeyMin == 4
hidKeyMax == 29
hidNumMin == 30
hidNumMax == 39
hidKeySpace == 44
BufferCap == 256
DataChanCap == 10
ErrorChanCap == 1
SigChanCap == 1
ChangesChanCap == 1
maxConsecutiveErrors == 10

Nil == 0

VARIABLES
    \* ---- BarcodeScanner (one session)
    pc,             \* position of the connectionManager goroutine
    ctxDone,        \* s.ctx cancelled
    device,         \* s.device: handle id, Nil when absent
    deviceInfo,     \* s.deviceInfo: normalized descriptor, Nil when absent
    connected,      \* s.connected (atomic int32)
    local,          \* tryConnect's local (device, deviceInfo) pair
    tokenRet,       \* where the session task resumes after a broker token wait
    rpc,            \* position of hidReadGoroutine
    rdev,           \* hidReadGoroutine's local device
    rdata,          \* report read and not yet sent on dataChan
    dataChan,       \* chan []byte, capacity 10
    errorChan,      \* chan error, capacity 1
    buffer,         \* hidProcessor.buffer[:bufferLen]
    sinceActivity,  \* 0: now - lastActivity <= 100ms, 1: > 100ms
    bufSrc,         \* history: [n, ep] of the last report appended to buffer
    terminationChar,\* hidProcessor.terminationChar
    stopPc,         \* position of the caller of Stop
    stopCalls,      \* number of Stop calls begun
    \* ---- the HID layer
    hw,             \* "absent" | "present": the target device as enumerated
    hwInfo,         \* raw descriptor of the enumerated device
    openHandles,    \* handles opened and not closed
    nextHandle,     \* handles opened so far
    goneHandles,    \* handles whose device was unplugged after the open
    nReads,         \* reports read so far
    \* ---- what the session's callbacks reach
    broker,         \* "down" | "stalled" | "ok": Client.IsConnected / token progress
    haKnown,        \* integration.scanners has this scanner
    events,         \* history: callbacks delivered by the session, in order
    \* ---- ScannerManager
    smConfigs,      \* sm.configs: sequence of scanner ids
    smScanners,     \* sm.scanners: ids with a stored session
    smStopCh,       \* sm.stopCh: "open" | "closed"
    smSess,         \* per id, its session: "none" | "running" | "stopped"
    smPc,           \* position of the caller of Start
    smIdx,          \* loop index over sm.configs
    smConnected,    \* checkInitialConnections: connected
    smDisconnected, \* checkInitialConnections: disconnected
    smResult,       \* what Start returned: "none" | "nil" | "fatal"
    smStopCalls,    \* number of Stop calls
    smPanicked,     \* the process died of a runtime panic
    smOpenable,     \* per id, whether its device can be found and opened now
    smProbed,       \* history: per id, outcome of its TryInitialConnect probe
    \* ---- ServiceManager, Client, Integration and the broker
    brPhase,        \* position of the orchestrator (StartAll / StopAll / exit)
    transport,      \* paho connection to the broker: "up" | "down"
    cConnected,     \* Client.connected
    onConnectSet,   \* Client.onConnect is Integration.handleConnect
    haScanners,     \* keys of integration.scanners
    haConnected,    \* per id, integration.scanners[id].Connected
    sess,           \* per id, where its session is
    retBridge,      \* broker: retained bridge availability
    retEntityConfig,\* broker: retained discovery config of the bridge entity
    retAvail,       \* broker: per id, retained scanner availability
    retConfig,      \* broker: per id, retained scanner discovery config
    lastSet,        \* history: per id, x of the last SetScannerConnected(id, x) call
    seenConnect,    \* history: per id, a connect event has been handled
    \* ---- tasks that reach integration.scanners
    mapOp,          \* per task, the Integration method it is running
    mapAcc,         \* per task, its access to the map in progress
    diagSummary,    \* the diagnostics summary last published by publishAllStates
    diagConn,       \* history: the scanners with Connected set when it was published
    \* ---- calls of Client.Publish and Integration.PublishBarcode
    wire,           \* the messages handed to paho: <<topic, scanner, retained>>
    pubOp,          \* the last call: "Publish" | "PublishRetained" | "PublishBarcode"
    pubId,          \* its scanner id (0 for Client.Publish)
    pubRet,         \* what it returned: "nil" | "error"
    pubCalls,       \* calls so far
    \* ---- ServiceManager over its registered services
    svPc,           \* where StartAll / StopAll is
    svIdx,          \* index into sm.order of the loop in progress
    svLog,          \* the calls made so far: <<service, method, result>>
    svConnected,    \* what Client.IsConnected() returns
    svRet,          \* what StartAll returned
    \* ---- Client with paho's callbacks in flight
    clPc,           \* "new" | "started" | "disconnected"
    clConn,         \* number of the current (or last) connection, 0 = none yet
    clRan,          \* the connection handleConnect last ran for
    clPending,      \* callbacks paho has yet to run: <<handler, connection>>
    \* ---- one HIDProcessor driven on its own
    hid,            \* [buf, since, out]: buffer, timeout elapsed, scans delivered
    hidTerm,        \* its terminationChar
    hidPrev,        \* history: the buffer before the last call
    \* ---- CLI.runApp and its signal handler
    cliPc,          \* runApp: "start" | "wait" | "stop" | "done" | "failed"
    cliSigCh,       \* sigCh (capacity 1): the signals buffered
    cliHandler,     \* the handler goroutine: "recv" | the signal it received
    cliShutdownCh,  \* shutdownCh: "open" | "closed"
    cliStops,       \* calls of Application.Stop
    cliSignals,     \* signals sent to the process so far
    \* ---- Client.ConnectWithRetry
    cwr,            \* the call: position, arguments, attempt, sleeps, outcomes, result
    \* ---- device selection
    sel,            \* the last device selection: function, inputs, result
    \* ---- BarcodeScanner of scanner.go (read loop plus timeout checkers)
    lgPc,           \* position of the readLoopWithReconnect goroutine
    lgDevice,       \* s.device != nil
    lgStopCh,       \* s.stopCh: "open" | "closed"
    lgErrors,       \* readStats.consecutiveErrors of the running readLoop
    lgCheckers,     \* per readLoop call, where its timeoutChecker goroutine is
    lgLoops,        \* readLoop calls so far
    lgHw,           \* the target device can be enumerated and opened
    lgMutex,        \* s.reconnectMutex: "free" | "Lock" (attemptReconnection)
    lgCallback,     \* the connection handler: "none" | "accessors"
    lgStopPc,       \* Stop: "idle" | "closeDevice" | "done"
    lgChanges,      \* deviceMonitor.changesCh (capacity 1)
    lgLast          \* deviceMonitor: the target was in lastDevices

vars == <<
    pc, ctxDone, device, deviceInfo, connected, local, tokenRet, rpc, rdev,
    rdata, dataChan, errorChan, buffer, sinceActivity, bufSrc,
    terminationChar, stopPc, stopCalls, hw, hwInfo, openHandles,
    goneHandles, nextHandle, nReads, broker, haKnown, events, smConfigs,
    smScanners, smStopCh, smSess, smPc, smIdx, smConnected, smDisconnected,
    smResult, smStopCalls, smPanicked, smOpenable, smProbed, brPhase,
    transport, cConnected, onConnectSet, haScanners, haConnected, sess,
    retBridge, retEntityConfig, retAvail, retConfig, lastSet, seenConnect,
    diagSummary, diagConn,
    mapOp, mapAcc, wire, pubOp, pubId, pubRet, pubCalls, svPc, svIdx, svLog, svConnected, svRet, clPc, clConn,
    clRan, clPending, hid, hidTerm, hidPrev, cliPc,
    cliSigCh, cliHandler, cliShutdownCh, cliStops, cliSignals, cwr, sel, lgPc, lgDevice,
    lgStopCh, lgErrors, lgCheckers, lgLoops, lgHw, lgMutex, lgCallback,
    lgStopPc, lgChanges, lgLast>>

\* ------------------------------------------------------------ pure helpers
Min(a, b) == IF a < b THEN a ELSE b

Whitespace == {9, 10, 11, 12, 13, 32}

RECURSIVE TrimLeft(_)
TrimLeft(s) ==
    IF s = <<>> THEN s
    ELSE IF Head(s) \in Whitespace THEN TrimLeft(Tail(s)) ELSE s

RECURSIVE TrimRight(_)
TrimRight(s) ==
    IF s = <<>> THEN s
    ELSE IF s[Len(s)] \in Whitespace THEN TrimRight(SubSeq(s, 1, Len(s) - 1)) ELSE s

\* strings.TrimSpace
TrimSpace(s) == TrimRight(TrimLeft(s))

\* BarcodeScanner.normalizeDeviceInfo
normalizeDeviceInfo(info) ==
    [manufacturer |-> TrimSpace(info.manufacturer),
     product      |-> TrimSpace(info.product),
     serial       |-> TrimSpace(info.serial)]

\* BarcodeScanner.isAllZeros
isAllZeros(data) == \A i \in 1..Len(data) : data[i] = 0

\* HIDProcessor.isTerminationKey
isTerminationKey(term, keyCode) ==
    CASE term \in {"enter", "return"} -> keyCode = hidKeyEnter
      [] term = "tab"                 -> keyCode = hidKeyTab
      [] term \in {"none", ""}        -> FALSE
      [] OTHER                        -> keyCode = hidKeyEnter

ShiftedDigits == <<33, 64, 35, 36, 37, 94, 38, 42, 40, 41>>

\* HIDProcessor.keyCodeToChar (letters, digits, the special keys)
keyCodeToChar(keyCode, modifier) ==
    LET shifted == (modifier \div 2) % 2 = 1 \/ (modifier \div 32) % 2 = 1
    IN  IF keyCode >= hidKeyMin /\ keyCode <= hidKeyMax
        THEN (IF shifted THEN 65 ELSE 97) + keyCode - hidKeyMin
        ELSE IF keyCode >= hidNumMin /\ keyCode <= hidNumMax
        THEN (IF shifted THEN ShiftedDigits[keyCode - hidNumMin + 1]
              ELSE IF keyCode = hidNumMax THEN 48
              ELSE 49 + keyCode - hidNumMin)
        ELSE IF keyCode = hidKeyEnter THEN 10
        ELSE IF keyCode = hidKeyTab THEN 9
        ELSE IF keyCode = hidKeySpace THEN 32
        ELSE 0

\* finalizeInput that delivers whatever is left after trimming
finalizeInputAlways(d) ==
    IF d.buf = <<>> THEN d
    ELSE [d EXCEPT !.buf = <<>>, !.out = Append(@, TrimSpace(d.buf))]

\* HIDProcessor.finalizeInput on a decoder state d = [buf, since, out]
finalizeInput(d) ==
    IF d.buf = <<>> THEN d
    ELSE LET barcode == TrimSpace(d.buf)
         IN  [d EXCEPT !.buf = <<>>,
                       !.out = IF barcode # <<>> THEN Append(@, barcode) ELSE @]

\* ProcessData's loop without the capacity test
RECURSIVE ProcessKeysUnbounded(_, _, _, _)
ProcessKeysUnbounded(d, term, data, i) ==
    IF i > Min(Len(data), 8) THEN d
    ELSE LET keyCode == data[i]
             char == keyCodeToChar(keyCode, data[1])
         IN  IF keyCode = 0 THEN ProcessKeysUnbounded(d, term, data, i + 1)
             ELSE IF isTerminationKey(term, keyCode) THEN finalizeInput(d)
             ELSE IF char # 0
                  THEN ProcessKeysUnbounded([d EXCEPT !.buf = Append(@, char), !.since = 0],
                                            term, data, i + 1)
                  ELSE ProcessKeysUnbounded(d, term, data, i + 1)

RECURSIVE ProcessKeys(_, _, _, _)
ProcessKeys(d, term, data, i) ==
    IF i > Min(Len(data), 8) THEN d
    ELSE LET keyCode == data[i]
             char == keyCodeToChar(keyCode, data[1])
         IN  IF keyCode = 0 THEN ProcessKeys(d, term, data, i + 1)
             ELSE IF isTerminationKey(term, keyCode) THEN finalizeInput(d)
             ELSE IF char # 0 /\ Len(d.buf) < BufferCap - 1
                  THEN ProcessKeys([d EXCEPT !.buf = Append(@, char), !.since = 0],
                                   term, data, i + 1)
                  ELSE ProcessKeys(d, term, data, i + 1)

\* HIDProcessor.ProcessData
ProcessData(d, term, data) ==
    IF Len(data) < 3 THEN d ELSE ProcessKeys(d, term, data, 3)

\* CheckTimeout that delivers the buffer and keeps it
CheckTimeoutKeep(d) ==
    IF d.buf # <<>> /\ d.since = 1
    THEN [d EXCEPT !.out = Append(@, TrimSpace(d.buf))]
    ELSE d

\* HIDProcessor.CheckTimeout
CheckTimeout(d) ==
    IF d.buf # <<>> /\ d.since = 1 THEN finalizeInput(d) ELSE d

\* =============================================================== manager
ScannerIds == 1..MaxConfigs

\* sm.configs comes from the config map: any order, no id twice
ConfigLists ==
    {c \in UNION {[1..n -> ScannerIds] : n \in 0..MaxConfigs} :
        \A i, j \in 1..Len(c) : c[i] = c[j] => i = j}

\* NewScannerManager
NewScannerManager(configs) ==
    /\ smConfigs = configs
    /\ smScanners = {}
    /\ smStopCh = "open"
    /\ smSess = [id \in ScannerIds |-> "none"]
    /\ smPc = "idle"
    /\ smIdx = 0
    /\ smConnected = 0
    /\ smDisconnected = 0
    /\ smResult = "none"
    /\ smStopCalls = 0
    /\ smPanicked = FALSE
    /\ smProbed = [id \in ScannerIds |-> "none"]

\* a manager without configs that nobody calls
IdleManager ==
    /\ NewScannerManager(<<>>)
    /\ smOpenable = [id \in ScannerIds |-> FALSE]

\* ================================================================ bridge
\* NewClient, NewIntegration and an empty broker, before StartAll
NewBridge ==
    /\ brPhase = "new"
    /\ transport = "down"
    /\ cConnected = FALSE
    /\ onConnectSet = FALSE
    /\ haScanners = {}
    /\ haConnected = [id \in ScannerIds |-> FALSE]
    /\ sess = [id \in ScannerIds |-> "off"]
    /\ retBridge = "none"
    /\ retEntityConfig = FALSE
    /\ retAvail = [id \in ScannerIds |-> "none"]
    /\ retConfig = [id \in ScannerIds |-> FALSE]
    /\ lastSet = [id \in ScannerIds |-> "none"]
    /\ seenConnect = [id \in ScannerIds |-> FALSE]
    /\ diagSummary = "none"
    /\ diagConn = {}
    /\ wire = <<>>
    /\ pubOp = "none"
    /\ pubId = 0
    /\ pubRet = "none"
    /\ pubCalls = 0
    /\ svPc = "new"
    /\ svIdx = 0
    /\ svLog = <<>>
    /\ svConnected = FALSE
    /\ svRet = "none"
    /\ cliPc = "start"
    /\ cliSigCh = <<>>
    /\ cliHandler = "recv"
    /\ cliShutdownCh = "open"
    /\ cliStops = 0
    /\ cliSignals = 0
    /\ cwr = [pc |-> "idle", maxRetries |-> 0, retryDelay |-> 0, delay0 |-> 0,
              attempt |-> 0, sleeps |-> <<>>, outcomes |-> <<>>, ret |-> "none"]
    /\ sel = [fn |-> "none", s |-> [vendorID |-> 1, productID |-> 1,
                                   requiredSerial |-> "", requiredInterface |-> -1],
              devices |-> <<>>, res |-> 0]
    /\ clPc = "new"
    /\ clConn = 0
    /\ clRan = 0
    /\ clPending = {}

\* ====================================================== map access tasks
\* the goroutines that call into the Integration: one per session (its
\* callbacks), paho's connect callback, the orchestrator (StopAll)
MapTasks ==
    {<<"session", id>> : id \in ScannerIds} \cup {<<"connect", 0>>, <<"stop", 0>>}

\* no task is inside the Integration
IdleMapTasks ==
    /\ mapOp = [t \in MapTasks |-> "idle"]
    /\ mapAcc = [t \in MapTasks |-> "none"]

\* ================================================ scanner.go: the session
\* NewBarcodeScannerWithSerial of scanner.go, not started
IdleLegacy ==
    /\ lgPc = "new"
    /\ lgDevice = FALSE
    /\ lgStopCh = "open"
    /\ lgErrors = 0
    /\ lgCheckers = [c \in 1..MaxEpochs |-> "none"]
    /\ lgLoops = 0
    /\ lgHw = FALSE
    /\ lgMutex = "free"
    /\ lgCallback = "none"
    /\ lgStopPc = "idle"
    /\ lgChanges = <<>>
    /\ lgLast = FALSE

\* ========================================================= HIDProcessor
\* NewHIDProcessor(terminationChar, ...): an empty buffer, nothing delivered
NewHIDProcessor(term) ==
    /\ hid = [buf |-> <<>>, since |-> 0, out |-> <<>>]
    /\ hidTerm = term
    /\ hidPrev = <<>>

\* ================================================================ session
\* raw descriptors the HID layer may report for the target device
RawInfos ==
    {[manufacturer |-> <<32, 77>>, product |-> <<80, 32>>, serial |-> <<49>>],
     [manufacturer |-> <<>>,       product |-> <<81>>,     serial |-> <<50, 32>>]}

\* reports the target device may deliver: 'a', 'a' then Enter, idle (all zero)
SessReports == {<<0, 0, 4>>, <<0, 0, 4, hidKeyEnter>>, <<0, 0, 0>>}

NoSrc == [n |-> 0, ep |-> 0]

\* a nil *hid.DeviceInfo, and no report in hand
NilInfo == [nil |-> TRUE]

NilData == [nil |-> TRUE]

InitSessionState ==
    /\ pc = "init"
    /\ ctxDone = FALSE
    /\ device = Nil
    /\ deviceInfo = NilInfo
    /\ connected = 0
    /\ local = [dev |-> Nil, info |-> NilInfo]
    /\ tokenRet = "none"
    /\ rpc = "none"
    /\ rdev = Nil
    /\ rdata = NilData
    /\ dataChan = <<>>
    /\ errorChan = <<>>
    /\ buffer = <<>>
    /\ sinceActivity = 0
    /\ bufSrc = NoSrc
    /\ terminationChar \in {"enter", "none"}
    /\ stopPc = "idle"
    /\ stopCalls = 0
    /\ hw = "absent"
    /\ hwInfo = CHOOSE i \in RawInfos : i.manufacturer = <<>>
    /\ openHandles = {}
    /\ goneHandles = {}
    /\ nextHandle = 0
    /\ nReads = 0
    /\ haKnown = FALSE
    /\ events = <<>>

\* a session that nobody starts
IdleSession ==
    /\ InitSessionState
    /\ terminationChar = "enter"
    /\ broker = "down"

\* the session on its own: the client is not connected, every Publish of a
\* handler returns its error at once
InitSession ==
    /\ InitSessionState
    /\ broker = "down"
    /\ IdleManager
    /\ NewBridge
    /\ IdleMapTasks
    /\ NewHIDProcessor("enter")
    /\ IdleLegacy

\* the session with a broker behind its handlers
InitSessionBroker ==
    /\ InitSessionState
    /\ broker \in {"down", "stalled", "ok"}
    /\ IdleManager
    /\ NewBridge
    /\ IdleMapTasks
    /\ NewHIDProcessor("enter")
    /\ IdleLegacy

\* send on a buffered channel: the value joins the queue behind earlier ones
ChanSend(ch, x) == Append(ch, x)

ConnEvent(val) ==
    [kind |-> "conn", val |-> val, ep |-> local.dev,
     open |-> local.dev \in openHandles, n |-> 0, rep |-> 0, barcode |-> <<>>]

ScanEvent(barcode, src) ==
    [kind |-> "scan", val |-> FALSE, ep |-> local.dev,
     open |-> local.dev \in openHandles, n |-> src.n, rep |-> src.ep,
     barcode |-> barcode]

\* Client.Publish as the handlers reach it: an unknown scanner or a client
\* that is not connected returns an error at once; otherwise token.Wait()
PublishBlocks(known) == known /\ broker # "down"

\* the session task runs a callback: the event is delivered, and the task
\* resumes at ret once the handler's Publish has returned
Deliver(ev, known, ret) ==
    /\ events' = Append(events, ev)
    /\ IF PublishBlocks(known)
       THEN pc' = "tokenWait" /\ tokenRet' = ret
       ELSE pc' = ret /\ UNCHANGED tokenRet

\* BarcodeScanner.Start: go s.connectionManager()
Start ==
    /\ pc = "init"
    /\ pc' = "loop"
    /\ UNCHANGED <<ctxDone, device, deviceInfo, connected, local, tokenRet, rpc, rdev,
                   rdata, dataChan, errorChan, buffer, sinceActivity, bufSrc,
                   terminationChar, stopPc, stopCalls, hw, hwInfo, openHandles, nextHandle,
                   goneHandles, nReads, broker, haKnown, events, smConfigs, smScanners,
                   smStopCh, smSess, smPc, smIdx, smConnected, smDisconnected, smResult,
                   smStopCalls, smPanicked, smOpenable, smProbed, brPhase, transport,
                   cConnected, onConnectSet, haScanners, haConnected, sess, retBridge,
                   retEntityConfig, retAvail, retConfig, lastSet, seenConnect, mapOp,
                   mapAcc, diagSummary, diagConn, wire, pubOp, pubId, pubRet, pubCalls,
                   svPc, svIdx, svLog, svConnected, svRet, clPc, clConn, clRan, clPending,
                   hid, hidTerm, hidPrev, cliPc, cliSigCh, cliHandler, cliShutdownCh,
                   cliStops, cliSignals, cwr, sel, lgPc, lgDevice, lgStopCh, lgErrors,
                   lgCheckers, lgLoops, lgHw, lgMutex, lgCallback, lgStopPc, lgChanges,
                   lgLast>>

\* connectionManager: select { case <-ctx.Done(): return; default: ... }
connectionManager ==
    /\ pc = "loop"
    /\ pc' = IF ctxDone THEN "exit" ELSE "find"
    /\ UNCHANGED <<ctxDone, device, deviceInfo, connected, local, tokenRet, rpc, rdev,
                   rdata, dataChan, errorChan, buffer, sinceActivity, bufSrc,
                   terminationChar, stopPc, stopCalls, hw, hwInfo, openHandles, nextHandle,
                   goneHandles, nReads, broker, haKnown, events, smConfigs, smScanners,
                   smStopCh, smSess, smPc, smIdx, smConnected, smDisconnected, smResult,
                   smStopCalls, smPanicked, smOpenable, smProbed, brPhase, transport,
                   cConnected, onConnectSet, haScanners, haConnected, sess, retBridge,
                   retEntityConfig, retAvail, retConfig, lastSet, seenConnect, mapOp,
                   mapAcc, diagSummary, diagConn, wire, pubOp, pubId, pubRet, pubCalls,
                   svPc, svIdx, svLog, svConnected, svRet, clPc, clConn, clRan, clPending,
                   hid, hidTerm, hidPrev, cliPc, cliSigCh, cliHandler, cliShutdownCh,
                   cliStops, cliSignals, cwr, sel, lgPc, lgDevice, lgStopCh, lgErrors,
                   lgCheckers, lgLoops, lgHw, lgMutex, lgCallback, lgStopPc, lgChanges,
                   lgLast>>

\* tryConnect: findAndOpenDevice()
findAndOpenDevice ==
    /\ pc = "find"
    /\ hw = "present" => nextHandle < MaxEpochs
    /\ IF hw = "present"
       THEN /\ nextHandle' = nextHandle + 1
            /\ openHandles' = openHandles \cup {nextHandle + 1}
            /\ local' = [dev |-> nextHandle + 1, info |-> normalizeDeviceInfo(hwInfo)]
            /\ pc' = "assign"
       ELSE /\ pc' = "wait"
            /\ UNCHANGED <<nextHandle, openHandles, local>>
    /\ UNCHANGED <<ctxDone, device, deviceInfo, connected, tokenRet, rpc, rdev, rdata,
                   dataChan, errorChan, buffer, sinceActivity, bufSrc, terminationChar,
                   stopPc, stopCalls, hw, hwInfo, goneHandles, nReads, broker, haKnown,
                   events, smConfigs, smScanners, smStopCh, smSess, smPc, smIdx,
                   smConnected, smDisconnected, smResult, smStopCalls, smPanicked,
                   smOpenable, smProbed, brPhase, transport, cConnected, onConnectSet,
                   haScanners, haConnected, sess, retBridge, retEntityConfig, retAvail,
                   retConfig, lastSet, seenConnect, mapOp, mapAcc, diagSummary, diagConn,
                   wire, pubOp, pubId, pubRet, pubCalls, svPc, svIdx, svLog, svConnected,
                   svRet, clPc, clConn, clRan, clPending, hid, hidTerm, hidPrev, cliPc,
                   cliSigCh, cliHandler, cliShutdownCh, cliStops, cliSignals, cwr, sel,
                   lgPc, lgDevice, lgStopCh, lgErrors, lgCheckers, lgLoops, lgHw, lgMutex,
                   lgCallback, lgStopPc, lgChanges, lgLast>>

\* tryConnect: s.device = device; s.deviceInfo = deviceInfo (under s.mutex)
tryConnectAssign ==
    /\ pc = "assign"
    /\ device' = local.dev
    /\ deviceInfo' = local.info
    /\ pc' = "store"
    /\ UNCHANGED <<ctxDone, connected, local, tokenRet, rpc, rdev, rdata, dataChan,
                   errorChan, buffer, sinceActivity, bufSrc, terminationChar, stopPc,
                   stopCalls, hw, hwInfo, openHandles, nextHandle, goneHandles, nReads,
                   broker, haKnown, events, smConfigs, smScanners, smStopCh, smSess, smPc,
                   smIdx, smConnected, smDisconnected, smResult, smStopCalls, smPanicked,
                   smOpenable, smProbed, brPhase, transport, cConnected, onConnectSet,
                   haScanners, haConnected, sess, retBridge, retEntityConfig, retAvail,
                   retConfig, lastSet, seenConnect, mapOp, mapAcc, diagSummary, diagConn,
                   wire, pubOp, pubId, pubRet, pubCalls, svPc, svIdx, svLog, svConnected,
                   svRet, clPc, clConn, clRan, clPending, hid, hidTerm, hidPrev, cliPc,
                   cliSigCh, cliHandler, cliShutdownCh, cliStops, cliSignals, cwr, sel,
                   lgPc, lgDevice, lgStopCh, lgErrors, lgCheckers, lgLoops, lgHw, lgMutex,
                   lgCallback, lgStopPc, lgChanges, lgLast>>

\* tryConnect: atomic.StoreInt32(&s.connected, 1)
tryConnectStore ==
    /\ pc = "store"
    /\ connected' = 1
    /\ pc' = "cbTrue"
    /\ UNCHANGED <<ctxDone, device, deviceInfo, local, tokenRet, rpc, rdev, rdata,
                   dataChan, errorChan, buffer, sinceActivity, bufSrc, terminationChar,
                   stopPc, stopCalls, hw, hwInfo, openHandles, nextHandle, goneHandles,
                   nReads, broker, haKnown, events, smConfigs, smScanners, smStopCh,
                   smSess, smPc, smIdx, smConnected, smDisconnected, smResult, smStopCalls,
                   smPanicked, smOpenable, smProbed, brPhase, transport, cConnected,
                   onConnectSet, haScanners, haConnected, sess, retBridge, retEntityConfig,
                   retAvail, retConfig, lastSet, seenConnect, mapOp, mapAcc, diagSummary,
                   diagConn, wire, pubOp, pubId, pubRet, pubCalls, svPc, svIdx, svLog,
                   svConnected, svRet, clPc, clConn, clRan, clPending, hid, hidTerm,
                   hidPrev, cliPc, cliSigCh, cliHandler, cliShutdownCh, cliStops,
                   cliSignals, cwr, sel, lgPc, lgDevice, lgStopCh, lgErrors, lgCheckers,
                   lgLoops, lgHw, lgMutex, lgCallback, lgStopPc, lgChanges, lgLast>>

\* tryConnect: callback(true). The handler creates the HA device when the
\* session reports connected with a descriptor, then SetScannerConnected.
tryConnectCallback ==
    /\ pc = "cbTrue"
    /\ LET known == haKnown \/ (connected = 1 /\ deviceInfo # NilInfo)
       IN  /\ haKnown' = known
           /\ Deliver(ConnEvent(TRUE), known, "readInit")
    /\ UNCHANGED <<ctxDone, device, deviceInfo, connected, local, rpc, rdev, rdata,
                   dataChan, errorChan, buffer, sinceActivity, bufSrc, terminationChar,
                   stopPc, stopCalls, hw, hwInfo, openHandles, nextHandle, goneHandles,
                   nReads, broker, smConfigs, smScanners, smStopCh, smSess, smPc, smIdx,
                   smConnected, smDisconnected, smResult, smStopCalls, smPanicked,
                   smOpenable, smProbed, brPhase, transport, cConnected, onConnectSet,
                   haScanners, haConnected, sess, retBridge, retEntityConfig, retAvail,
                   retConfig, lastSet, seenConnect, mapOp, mapAcc, diagSummary, diagConn,
                   wire, pubOp, pubId, pubRet, pubCalls, svPc, svIdx, svLog, svConnected,
                   svRet, clPc, clConn, clRan, clPending, hid, hidTerm, hidPrev, cliPc,
                   cliSigCh, cliHandler, cliShutdownCh, cliStops, cliSignals, cwr, sel,
                   lgPc, lgDevice, lgStopCh, lgErrors, lgCheckers, lgLoops, lgHw, lgMutex,
                   lgCallback, lgStopPc, lgChanges, lgLast>>

\* runReadLoop: make the channels, go s.hidReadGoroutine(...)
runReadLoop ==
    /\ pc = "readInit"
    /\ dataChan' = <<>>
    /\ errorChan' = <<>>
    /\ rpc' = "top"
    /\ pc' = "select"
    /\ UNCHANGED <<ctxDone, device, deviceInfo, connected, local, tokenRet, rdev, rdata,
                   buffer, sinceActivity, bufSrc, terminationChar, stopPc, stopCalls, hw,
                   hwInfo, openHandles, nextHandle, goneHandles, nReads, broker, haKnown,
                   events, smConfigs, smScanners, smStopCh, smSess, smPc, smIdx,
                   smConnected, smDisconnected, smResult, smStopCalls, smPanicked,
                   smOpenable, smProbed, brPhase, transport, cConnected, onConnectSet,
                   haScanners, haConnected, sess, retBridge, retEntityConfig, retAvail,
                   retConfig, lastSet, seenConnect, mapOp, mapAcc, diagSummary, diagConn,
                   wire, pubOp, pubId, pubRet, pubCalls, svPc, svIdx, svLog, svConnected,
                   svRet, clPc, clConn, clRan, clPending, hid, hidTerm, hidPrev, cliPc,
                   cliSigCh, cliHandler, cliShutdownCh, cliStops, cliSignals, cwr, sel,
                   lgPc, lgDevice, lgStopCh, lgErrors, lgCheckers, lgLoops, lgHw, lgMutex,
                   lgCallback, lgStopPc, lgChanges, lgLast>>

\* runReadLoop: case <-s.ctx.Done(): return
selectCtxDone ==
    /\ pc = "select"
    /\ ctxDone
    /\ pc' = "wait"
    /\ UNCHANGED <<ctxDone, device, deviceInfo, connected, local, tokenRet, rpc, rdev,
                   rdata, dataChan, errorChan, buffer, sinceActivity, bufSrc,
                   terminationChar, stopPc, stopCalls, hw, hwInfo, openHandles, nextHandle,
                   goneHandles, nReads, broker, haKnown, events, smConfigs, smScanners,
                   smStopCh, smSess, smPc, smIdx, smConnected, smDisconnected, smResult,
                   smStopCalls, smPanicked, smOpenable, smProbed, brPhase, transport,
                   cConnected, onConnectSet, haScanners, haConnected, sess, retBridge,
                   retEntityConfig, retAvail, retConfig, lastSet, seenConnect, mapOp,
                   mapAcc, diagSummary, diagConn, wire, pubOp, pubId, pubRet, pubCalls,
                   svPc, svIdx, svLog, svConnected, svRet, clPc, clConn, clRan, clPending,
                   hid, hidTerm, hidPrev, cliPc, cliSigCh, cliHandler, cliShutdownCh,
                   cliStops, cliSignals, cwr, sel, lgPc, lgDevice, lgStopCh, lgErrors,
                   lgCheckers, lgLoops, lgHw, lgMutex, lgCallback, lgStopPc, lgChanges,
                   lgLast>>

\* runReadLoop: case <-timeoutTicker.C: s.hidProcessor.CheckTimeout()
selectTick ==
    /\ pc = "select"
    /\ LET d == CheckTimeout([buf |-> buffer, since |-> sinceActivity, out |-> <<>>])
       IN  /\ buffer' = d.buf
           /\ IF d.out # <<>>
              THEN Deliver(ScanEvent(d.out[1], bufSrc), haKnown, "select")
              ELSE UNCHANGED <<events, pc, tokenRet>>
    /\ UNCHANGED <<ctxDone, device, deviceInfo, connected, local, rpc, rdev, rdata,
                   dataChan, errorChan, sinceActivity, bufSrc, terminationChar, stopPc,
                   stopCalls, hw, hwInfo, openHandles, nextHandle, goneHandles, nReads,
                   broker, haKnown, smConfigs, smScanners, smStopCh, smSess, smPc, smIdx,
                   smConnected, smDisconnected, smResult, smStopCalls, smPanicked,
                   smOpenable, smProbed, brPhase, transport, cConnected, onConnectSet,
                   haScanners, haConnected, sess, retBridge, retEntityConfig, retAvail,
                   retConfig, lastSet, seenConnect, mapOp, mapAcc, diagSummary, diagConn,
                   wire, pubOp, pubId, pubRet, pubCalls, svPc, svIdx, svLog, svConnected,
                   svRet, clPc, clConn, clRan, clPending, hid, hidTerm, hidPrev, cliPc,
                   cliSigCh, cliHandler, cliShutdownCh, cliStops, cliSignals, cwr, sel,
                   lgPc, lgDevice, lgStopCh, lgErrors, lgCheckers, lgLoops, lgHw, lgMutex,
                   lgCallback, lgStopPc, lgChanges, lgLast>>

\* runReadLoop: case data := <-dataChan: ProcessData unless empty or all zero
selectData ==
    /\ pc = "select"
    /\ dataChan # <<>>
    /\ LET m == Head(dataChan)
           d0 == [buf |-> buffer, since |-> sinceActivity, out |-> <<>>]
           d == IF Len(m.data) > 0 /\ ~isAllZeros(m.data)
                THEN ProcessData(d0, terminationChar, m.data) ELSE d0
           src == [n |-> m.n, ep |-> m.ep]
       IN  /\ dataChan' = Tail(dataChan)
           /\ buffer' = d.buf
           /\ sinceActivity' = d.since
           /\ bufSrc' = IF Len(d.buf) > Len(buffer) THEN src ELSE bufSrc
           /\ IF d.out # <<>>
              THEN Deliver(ScanEvent(d.out[1], src), haKnown, "select")
              ELSE UNCHANGED <<events, pc, tokenRet>>
    /\ UNCHANGED <<ctxDone, device, deviceInfo, connected, local, rpc, rdev, rdata,
                   errorChan, terminationChar, stopPc, stopCalls, hw, hwInfo, openHandles,
                   nextHandle, goneHandles, nReads, broker, haKnown, smConfigs, smScanners,
                   smStopCh, smSess, smPc, smIdx, smConnected, smDisconnected, smResult,
                   smStopCalls, smPanicked, smOpenable, smProbed, brPhase, transport,
                   cConnected, onConnectSet, haScanners, haConnected, sess, retBridge,
                   retEntityConfig, retAvail, retConfig, lastSet, seenConnect, mapOp,
                   mapAcc, diagSummary, diagConn, wire, pubOp, pubId, pubRet, pubCalls,
                   svPc, svIdx, svLog, svConnected, svRet, clPc, clConn, clRan, clPending,
                   hid, hidTerm, hidPrev, cliPc, cliSigCh, cliHandler, cliShutdownCh,
                   cliStops, cliSignals, cwr, sel, lgPc, lgDevice, lgStopCh, lgErrors,
                   lgCheckers, lgLoops, lgHw, lgMutex, lgCallback, lgStopPc, lgChanges,
                   lgLast>>

\* runReadLoop: case err := <-errorChan: s.disconnect(); return
selectError ==
    /\ pc = "select"
    /\ errorChan # <<>>
    /\ errorChan' = Tail(errorChan)
    /\ pc' = "disc1"
    /\ UNCHANGED <<ctxDone, device, deviceInfo, connected, local, tokenRet, rpc, rdev,
                   rdata, dataChan, buffer, sinceActivity, bufSrc, terminationChar, stopPc,
                   stopCalls, hw, hwInfo, openHandles, nextHandle, goneHandles, nReads,
                   broker, haKnown, events, smConfigs, smScanners, smStopCh, smSess, smPc,
                   smIdx, smConnected, smDisconnected, smResult, smStopCalls, smPanicked,
                   smOpenable, smProbed, brPhase, transport, cConnected, onConnectSet,
                   haScanners, haConnected, sess, retBridge, retEntityConfig, retAvail,
                   retConfig, lastSet, seenConnect, mapOp, mapAcc, diagSummary, diagConn,
                   wire, pubOp, pubId, pubRet, pubCalls, svPc, svIdx, svLog, svConnected,
                   svRet, clPc, clConn, clRan, clPending, hid, hidTerm, hidPrev, cliPc,
                   cliSigCh, cliHandler, cliShutdownCh, cliStops, cliSignals, cwr, sel,
                   lgPc, lgDevice, lgStopCh, lgErrors, lgCheckers, lgLoops, lgHw, lgMutex,
                   lgCallback, lgStopPc, lgChanges, lgLast>>

\* disconnect: atomic.StoreInt32(&s.connected, 0)
disconnectStore ==
    /\ pc = "disc1"
    /\ connected' = 0
    /\ pc' = "disc2"
    /\ UNCHANGED <<ctxDone, device, deviceInfo, local, tokenRet, rpc, rdev, rdata,
                   dataChan, errorChan, buffer, sinceActivity, bufSrc, terminationChar,
                   stopPc, stopCalls, hw, hwInfo, openHandles, nextHandle, goneHandles,
                   nReads, broker, haKnown, events, smConfigs, smScanners, smStopCh,
                   smSess, smPc, smIdx, smConnected, smDisconnected, smResult, smStopCalls,
                   smPanicked, smOpenable, smProbed, brPhase, transport, cConnected,
                   onConnectSet, haScanners, haConnected, sess, retBridge, retEntityConfig,
                   retAvail, retConfig, lastSet, seenConnect, mapOp, mapAcc, diagSummary,
                   diagConn, wire, pubOp, pubId, pubRet, pubCalls, svPc, svIdx, svLog,
                   svConnected, svRet, clPc, clConn, clRan, clPending, hid, hidTerm,
                   hidPrev, cliPc, cliSigCh, cliHandler, cliShutdownCh, cliStops,
                   cliSignals, cwr, sel, lgPc, lgDevice, lgStopCh, lgErrors, lgCheckers,
                   lgLoops, lgHw, lgMutex, lgCallback, lgStopPc, lgChanges, lgLast>>

\* disconnect: take and clear s.device / s.deviceInfo, close the handle
disconnectClose ==
    /\ pc = "disc2"
    /\ device' = Nil
    /\ deviceInfo' = NilInfo
    /\ openHandles' = openHandles \ {device}
    /\ pc' = "cbFalse"
    /\ UNCHANGED <<ctxDone, connected, local, tokenRet, rpc, rdev, rdata, dataChan,
                   errorChan, buffer, sinceActivity, bufSrc, terminationChar, stopPc,
                   stopCalls, hw, hwInfo, nextHandle, goneHandles, nReads, broker, haKnown,
                   events, smConfigs, smScanners, smStopCh, smSess, smPc, smIdx,
                   smConnected, smDisconnected, smResult, smStopCalls, smPanicked,
                   smOpenable, smProbed, brPhase, transport, cConnected, onConnectSet,
                   haScanners, haConnected, sess, retBridge, retEntityConfig, retAvail,
                   retConfig, lastSet, seenConnect, mapOp, mapAcc, diagSummary, diagConn,
                   wire, pubOp, pubId, pubRet, pubCalls, svPc, svIdx, svLog, svConnected,
                   svRet, clPc, clConn, clRan, clPending, hid, hidTerm, hidPrev, cliPc,
                   cliSigCh, cliHandler, cliShutdownCh, cliStops, cliSignals, cwr, sel,
                   lgPc, lgDevice, lgStopCh, lgErrors, lgCheckers, lgLoops, lgHw, lgMutex,
                   lgCallback, lgStopPc, lgChanges, lgLast>>

\* disconnect: callback(false); the handler calls SetScannerConnected
disconnectCallback ==
    /\ pc = "cbFalse"
    /\ Deliver(ConnEvent(FALSE), haKnown, "wait")
    /\ UNCHANGED <<ctxDone, device, deviceInfo, connected, local, rpc, rdev, rdata,
                   dataChan, errorChan, buffer, sinceActivity, bufSrc, terminationChar,
                   stopPc, stopCalls, hw, hwInfo, openHandles, nextHandle, goneHandles,
                   nReads, broker, haKnown, smConfigs, smScanners, smStopCh, smSess, smPc,
                   smIdx, smConnected, smDisconnected, smResult, smStopCalls, smPanicked,
                   smOpenable, smProbed, brPhase, transport, cConnected, onConnectSet,
                   haScanners, haConnected, sess, retBridge, retEntityConfig, retAvail,
                   retConfig, lastSet, seenConnect, mapOp, mapAcc, diagSummary, diagConn,
                   wire, pubOp, pubId, pubRet, pubCalls, svPc, svIdx, svLog, svConnected,
                   svRet, clPc, clConn, clRan, clPending, hid, hidTerm, hidPrev, cliPc,
                   cliSigCh, cliHandler, cliShutdownCh, cliStops, cliSignals, cwr, sel,
                   lgPc, lgDevice, lgStopCh, lgErrors, lgCheckers, lgLoops, lgHw, lgMutex,
                   lgCallback, lgStopPc, lgChanges, lgLast>>

\* connectionManager: select { case <-ctx.Done(): return ... }
waitCtxDone ==
    /\ pc = "wait"
    /\ ctxDone
    /\ pc' = "exit"
    /\ UNCHANGED <<ctxDone, device, deviceInfo, connected, local, tokenRet, rpc, rdev,
                   rdata, dataChan, errorChan, buffer, sinceActivity, bufSrc,
                   terminationChar, stopPc, stopCalls, hw, hwInfo, openHandles, nextHandle,
                   goneHandles, nReads, broker, haKnown, events, smConfigs, smScanners,
                   smStopCh, smSess, smPc, smIdx, smConnected, smDisconnected, smResult,
                   smStopCalls, smPanicked, smOpenable, smProbed, brPhase, transport,
                   cConnected, onConnectSet, haScanners, haConnected, sess, retBridge,
                   retEntityConfig, retAvail, retConfig, lastSet, seenConnect, mapOp,
                   mapAcc, diagSummary, diagConn, wire, pubOp, pubId, pubRet, pubCalls,
                   svPc, svIdx, svLog, svConnected, svRet, clPc, clConn, clRan, clPending,
                   hid, hidTerm, hidPrev, cliPc, cliSigCh, cliHandler, cliShutdownCh,
                   cliStops, cliSignals, cwr, sel, lgPc, lgDevice, lgStopCh, lgErrors,
                   lgCheckers, lgLoops, lgHw, lgMutex, lgCallback, lgStopPc, lgChanges,
                   lgLast>>

\* connectionManager: case <-time.After(s.reconnectDelay):
waitReconnectDelay ==
    /\ pc = "wait"
    /\ pc' = "loop"
    /\ UNCHANGED <<ctxDone, device, deviceInfo, connected, local, tokenRet, rpc, rdev,
                   rdata, dataChan, errorChan, buffer, sinceActivity, bufSrc,
                   terminationChar, stopPc, stopCalls, hw, hwInfo, openHandles, nextHandle,
                   goneHandles, nReads, broker, haKnown, events, smConfigs, smScanners,
                   smStopCh, smSess, smPc, smIdx, smConnected, smDisconnected, smResult,
                   smStopCalls, smPanicked, smOpenable, smProbed, brPhase, transport,
                   cConnected, onConnectSet, haScanners, haConnected, sess, retBridge,
                   retEntityConfig, retAvail, retConfig, lastSet, seenConnect, mapOp,
                   mapAcc, diagSummary, diagConn, wire, pubOp, pubId, pubRet, pubCalls,
                   svPc, svIdx, svLog, svConnected, svRet, clPc, clConn, clRan, clPending,
                   hid, hidTerm, hidPrev, cliPc, cliSigCh, cliHandler, cliShutdownCh,
                   cliStops, cliSignals, cwr, sel, lgPc, lgDevice, lgStopCh, lgErrors,
                   lgCheckers, lgLoops, lgHw, lgMutex, lgCallback, lgStopPc, lgChanges,
                   lgLast>>

\* Client.Publish: token.Wait() returns once the broker has answered or the
\* connection is gone
tokenWait ==
    /\ pc = "tokenWait"
    /\ broker # "stalled"
    /\ pc' = tokenRet
    /\ tokenRet' = "none"
    /\ UNCHANGED <<ctxDone, device, deviceInfo, connected, local, rpc, rdev, rdata,
                   dataChan, errorChan, buffer, sinceActivity, bufSrc, terminationChar,
                   stopPc, stopCalls, hw, hwInfo, openHandles, nextHandle, goneHandles,
                   nReads, broker, haKnown, events, smConfigs, smScanners, smStopCh,
                   smSess, smPc, smIdx, smConnected, smDisconnected, smResult, smStopCalls,
                   smPanicked, smOpenable, smProbed, brPhase, transport, cConnected,
                   onConnectSet, haScanners, haConnected, sess, retBridge, retEntityConfig,
                   retAvail, retConfig, lastSet, seenConnect, mapOp, mapAcc, diagSummary,
                   diagConn, wire, pubOp, pubId, pubRet, pubCalls, svPc, svIdx, svLog,
                   svConnected, svRet, clPc, clConn, clRan, clPending, hid, hidTerm,
                   hidPrev, cliPc, cliSigCh, cliHandler, cliShutdownCh, cliStops,
                   cliSignals, cwr, sel, lgPc, lgDevice, lgStopCh, lgErrors, lgCheckers,
                   lgLoops, lgHw, lgMutex, lgCallback, lgStopPc, lgChanges, lgLast>>

\* hidReadGoroutine: loop head, ctx check and read of s.device
readerTop ==
    /\ rpc = "top"
    /\ IF ctxDone THEN rpc' = "exit" /\ UNCHANGED rdev
       ELSE IF device = Nil THEN rpc' = "sendErr" /\ UNCHANGED rdev
       ELSE rpc' = "read" /\ rdev' = device
    /\ UNCHANGED <<pc, ctxDone, device, deviceInfo, connected, local, tokenRet, rdata,
                   dataChan, errorChan, buffer, sinceActivity, bufSrc, terminationChar,
                   stopPc, stopCalls, hw, hwInfo, openHandles, nextHandle, goneHandles,
                   nReads, broker, haKnown, events, smConfigs, smScanners, smStopCh,
                   smSess, smPc, smIdx, smConnected, smDisconnected, smResult, smStopCalls,
                   smPanicked, smOpenable, smProbed, brPhase, transport, cConnected,
                   onConnectSet, haScanners, haConnected, sess, retBridge, retEntityConfig,
                   retAvail, retConfig, lastSet, seenConnect, mapOp, mapAcc, diagSummary,
                   diagConn, wire, pubOp, pubId, pubRet, pubCalls, svPc, svIdx, svLog,
                   svConnected, svRet, clPc, clConn, clRan, clPending, hid, hidTerm,
                   hidPrev, cliPc, cliSigCh, cliHandler, cliShutdownCh, cliStops,
                   cliSignals, cwr, sel, lgPc, lgDevice, lgStopCh, lgErrors, lgCheckers,
                   lgLoops, lgHw, lgMutex, lgCallback, lgStopPc, lgChanges, lgLast>>

HandleValid(h) == h \in openHandles /\ h \notin goneHandles

\* hidReadGoroutine: device.Read returns a timeout error: continue
readerTimeout ==
    /\ rpc = "read"
    /\ HandleValid(rdev)
    /\ rpc' = "top"
    /\ UNCHANGED <<pc, ctxDone, device, deviceInfo, connected, local, tokenRet, rdev,
                   rdata, dataChan, errorChan, buffer, sinceActivity, bufSrc,
                   terminationChar, stopPc, stopCalls, hw, hwInfo, openHandles, nextHandle,
                   goneHandles, nReads, broker, haKnown, events, smConfigs, smScanners,
                   smStopCh, smSess, smPc, smIdx, smConnected, smDisconnected, smResult,
                   smStopCalls, smPanicked, smOpenable, smProbed, brPhase, transport,
                   cConnected, onConnectSet, haScanners, haConnected, sess, retBridge,
                   retEntityConfig, retAvail, retConfig, lastSet, seenConnect, mapOp,
                   mapAcc, diagSummary, diagConn, wire, pubOp, pubId, pubRet, pubCalls,
                   svPc, svIdx, svLog, svConnected, svRet, clPc, clConn, clRan, clPending,
                   hid, hidTerm, hidPrev, cliPc, cliSigCh, cliHandler, cliShutdownCh,
                   cliStops, cliSignals, cwr, sel, lgPc, lgDevice, lgStopCh, lgErrors,
                   lgCheckers, lgLoops, lgHw, lgMutex, lgCallback, lgStopPc, lgChanges,
                   lgLast>>

\* hidReadGoroutine: device.Read returns n > 0 bytes
readerData ==
    /\ rpc = "read"
    /\ HandleValid(rdev)
    /\ nReads < MaxReads
    /\ \E data \in SessReports :
          rdata' = [data |-> data, n |-> nReads + 1, ep |-> rdev]
    /\ nReads' = nReads + 1
    /\ rpc' = "sendData"
    /\ UNCHANGED <<pc, ctxDone, device, deviceInfo, connected, local, tokenRet, rdev,
                   dataChan, errorChan, buffer, sinceActivity, bufSrc, terminationChar,
                   stopPc, stopCalls, hw, hwInfo, openHandles, nextHandle, goneHandles,
                   broker, haKnown, events, smConfigs, smScanners, smStopCh, smSess, smPc,
                   smIdx, smConnected, smDisconnected, smResult, smStopCalls, smPanicked,
                   smOpenable, smProbed, brPhase, transport, cConnected, onConnectSet,
                   haScanners, haConnected, sess, retBridge, retEntityConfig, retAvail,
                   retConfig, lastSet, seenConnect, mapOp, mapAcc, diagSummary, diagConn,
                   wire, pubOp, pubId, pubRet, pubCalls, svPc, svIdx, svLog, svConnected,
                   svRet, clPc, clConn, clRan, clPending, hid, hidTerm, hidPrev, cliPc,
                   cliSigCh, cliHandler, cliShutdownCh, cliStops, cliSignals, cwr, sel,
                   lgPc, lgDevice, lgStopCh, lgErrors, lgCheckers, lgLoops, lgHw, lgMutex,
                   lgCallback, lgStopPc, lgChanges, lgLast>>

\* hidReadGoroutine: device.Read returns any other error
readerError ==
    /\ rpc = "read"
    /\ ~HandleValid(rdev)
    /\ rpc' = "sendErr"
    /\ UNCHANGED <<pc, ctxDone, device, deviceInfo, connected, local, tokenRet, rdev,
                   rdata, dataChan, errorChan, buffer, sinceActivity, bufSrc,
                   terminationChar, stopPc, stopCalls, hw, hwInfo, openHandles, nextHandle,
                   goneHandles, nReads, broker, haKnown, events, smConfigs, smScanners,
                   smStopCh, smSess, smPc, smIdx, smConnected, smDisconnected, smResult,
                   smStopCalls, smPanicked, smOpenable, smProbed, brPhase, transport,
                   cConnected, onConnectSet, haScanners, haConnected, sess, retBridge,
                   retEntityConfig, retAvail, retConfig, lastSet, seenConnect, mapOp,
                   mapAcc, diagSummary, diagConn, wire, pubOp, pubId, pubRet, pubCalls,
                   svPc, svIdx, svLog, svConnected, svRet, clPc, clConn, clRan, clPending,
                   hid, hidTerm, hidPrev, cliPc, cliSigCh, cliHandler, cliShutdownCh,
                   cliStops, cliSignals, cwr, sel, lgPc, lgDevice, lgStopCh, lgErrors,
                   lgCheckers, lgLoops, lgHw, lgMutex, lgCallback, lgStopPc, lgChanges,
                   lgLast>>

\* hidReadGoroutine: dataChan <- data
readerSendData ==
    /\ rpc = "sendData"
    /\ Len(dataChan) < DataChanCap
    /\ dataChan' = ChanSend(dataChan, rdata)
    /\ rdata' = NilData
    /\ rpc' = "top"
    /\ UNCHANGED <<pc, ctxDone, device, deviceInfo, connected, local, tokenRet, rdev,
                   errorChan, buffer, sinceActivity, bufSrc, terminationChar, stopPc,
                   stopCalls, hw, hwInfo, openHandles, nextHandle, goneHandles, nReads,
                   broker, haKnown, events, smConfigs, smScanners, smStopCh, smSess, smPc,
                   smIdx, smConnected, smDisconnected, smResult, smStopCalls, smPanicked,
                   smOpenable, smProbed, brPhase, transport, cConnected, onConnectSet,
                   haScanners, haConnected, sess, retBridge, retEntityConfig, retAvail,
                   retConfig, lastSet, seenConnect, mapOp, mapAcc, diagSummary, diagConn,
                   wire, pubOp, pubId, pubRet, pubCalls, svPc, svIdx, svLog, svConnected,
                   svRet, clPc, clConn, clRan, clPending, hid, hidTerm, hidPrev, cliPc,
                   cliSigCh, cliHandler, cliShutdownCh, cliStops, cliSignals, cwr, sel,
                   lgPc, lgDevice, lgStopCh, lgErrors, lgCheckers, lgLoops, lgHw, lgMutex,
                   lgCallback, lgStopPc, lgChanges, lgLast>>

\* hidReadGoroutine: errorChan <- err; return
readerSendErr ==
    /\ rpc = "sendErr"
    /\ Len(errorChan) < ErrorChanCap
    /\ errorChan' = Append(errorChan, "err")
    /\ rpc' = "exit"
    /\ UNCHANGED <<pc, ctxDone, device, deviceInfo, connected, local, tokenRet, rdev,
                   rdata, dataChan, buffer, sinceActivity, bufSrc, terminationChar, stopPc,
                   stopCalls, hw, hwInfo, openHandles, nextHandle, goneHandles, nReads,
                   broker, haKnown, events, smConfigs, smScanners, smStopCh, smSess, smPc,
                   smIdx, smConnected, smDisconnected, smResult, smStopCalls, smPanicked,
                   smOpenable, smProbed, brPhase, transport, cConnected, onConnectSet,
                   haScanners, haConnected, sess, retBridge, retEntityConfig, retAvail,
                   retConfig, lastSet, seenConnect, mapOp, mapAcc, diagSummary, diagConn,
                   wire, pubOp, pubId, pubRet, pubCalls, svPc, svIdx, svLog, svConnected,
                   svRet, clPc, clConn, clRan, clPending, hid, hidTerm, hidPrev, cliPc,
                   cliSigCh, cliHandler, cliShutdownCh, cliStops, cliSignals, cwr, sel,
                   lgPc, lgDevice, lgStopCh, lgErrors, lgCheckers, lgLoops, lgHw, lgMutex,
                   lgCallback, lgStopPc, lgChanges, lgLast>>

\* BarcodeScanner.Stop: s.cancel()
StopCancel ==
    /\ stopPc = "idle"
    /\ stopCalls < MaxStopCalls
    /\ stopCalls' = stopCalls + 1
    /\ ctxDone' = TRUE
    /\ stopPc' = "clear"
    /\ UNCHANGED <<pc, device, deviceInfo, connected, local, tokenRet, rpc, rdev, rdata,
                   dataChan, errorChan, buffer, sinceActivity, bufSrc, terminationChar, hw,
                   hwInfo, openHandles, nextHandle, goneHandles, nReads, broker, haKnown,
                   events, smConfigs, smScanners, smStopCh, smSess, smPc, smIdx,
                   smConnected, smDisconnected, smResult, smStopCalls, smPanicked,
                   smOpenable, smProbed, brPhase, transport, cConnected, onConnectSet,
                   haScanners, haConnected, sess, retBridge, retEntityConfig, retAvail,
                   retConfig, lastSet, seenConnect, mapOp, mapAcc, diagSummary, diagConn,
                   wire, pubOp, pubId, pubRet, pubCalls, svPc, svIdx, svLog, svConnected,
                   svRet, clPc, clConn, clRan, clPending, hid, hidTerm, hidPrev, cliPc,
                   cliSigCh, cliHandler, cliShutdownCh, cliStops, cliSignals, cwr, sel,
                   lgPc, lgDevice, lgStopCh, lgErrors, lgCheckers, lgLoops, lgHw, lgMutex,
                   lgCallback, lgStopPc, lgChanges, lgLast>>

\* BarcodeScanner.Stop: clear device / deviceInfo / connected, close the handle
StopClose ==
    /\ stopPc = "clear"
    /\ device' = Nil
    /\ deviceInfo' = NilInfo
    /\ connected' = 0
    /\ openHandles' = openHandles \ {device}
    /\ stopPc' = "idle"
    /\ UNCHANGED <<pc, ctxDone, local, tokenRet, rpc, rdev, rdata, dataChan, errorChan,
                   buffer, sinceActivity, bufSrc, terminationChar, stopCalls, hw, hwInfo,
                   nextHandle, goneHandles, nReads, broker, haKnown, events, smConfigs,
                   smScanners, smStopCh, smSess, smPc, smIdx, smConnected, smDisconnected,
                   smResult, smStopCalls, smPanicked, smOpenable, smProbed, brPhase,
                   transport, cConnected, onConnectSet, haScanners, haConnected, sess,
                   retBridge, retEntityConfig, retAvail, retConfig, lastSet, seenConnect,
                   mapOp, mapAcc, diagSummary, diagConn, wire, pubOp, pubId, pubRet,
                   pubCalls, svPc, svIdx, svLog, svConnected, svRet, clPc, clConn, clRan,
                   clPending, hid, hidTerm, hidPrev, cliPc, cliSigCh, cliHandler,
                   cliShutdownCh, cliStops, cliSignals, cwr, sel, lgPc, lgDevice, lgStopCh,
                   lgErrors, lgCheckers, lgLoops, lgHw, lgMutex, lgCallback, lgStopPc,
                   lgChanges, lgLast>>

\* the device is unplugged: every handle opened on it starts to fail
Unplug ==
    /\ hw = "present"
    /\ hw' = "absent"
    /\ goneHandles' = goneHandles \cup openHandles
    /\ UNCHANGED <<pc, ctxDone, device, deviceInfo, connected, local, tokenRet, rpc, rdev,
                   rdata, dataChan, errorChan, buffer, sinceActivity, bufSrc,
                   terminationChar, stopPc, stopCalls, hwInfo, openHandles, nextHandle,
                   nReads, broker, haKnown, events, smConfigs, smScanners, smStopCh,
                   smSess, smPc, smIdx, smConnected, smDisconnected, smResult, smStopCalls,
                   smPanicked, smOpenable, smProbed, brPhase, transport, cConnected,
                   onConnectSet, haScanners, haConnected, sess, retBridge, retEntityConfig,
                   retAvail, retConfig, lastSet, seenConnect, mapOp, mapAcc, diagSummary,
                   diagConn, wire, pubOp, pubId, pubRet, pubCalls, svPc, svIdx, svLog,
                   svConnected, svRet, clPc, clConn, clRan, clPending, hid, hidTerm,
                   hidPrev, cliPc, cliSigCh, cliHandler, cliShutdownCh, cliStops,
                   cliSignals, cwr, sel, lgPc, lgDevice, lgStopCh, lgErrors, lgCheckers,
                   lgLoops, lgHw, lgMutex, lgCallback, lgStopPc, lgChanges, lgLast>>

\* a device matching the configuration is plugged in
Plug ==
    /\ hw = "absent"
    /\ hw' = "present"
    /\ hwInfo' \in RawInfos
    /\ UNCHANGED <<pc, ctxDone, device, deviceInfo, connected, local, tokenRet, rpc, rdev,
                   rdata, dataChan, errorChan, buffer, sinceActivity, bufSrc,
                   terminationChar, stopPc, stopCalls, openHandles, nextHandle,
                   goneHandles, nReads, broker, haKnown, events, smConfigs, smScanners,
                   smStopCh, smSess, smPc, smIdx, smConnected, smDisconnected, smResult,
                   smStopCalls, smPanicked, smOpenable, smProbed, brPhase, transport,
                   cConnected, onConnectSet, haScanners, haConnected, sess, retBridge,
                   retEntityConfig, retAvail, retConfig, lastSet, seenConnect, mapOp,
                   mapAcc, diagSummary, diagConn, wire, pubOp, pubId, pubRet, pubCalls,
                   svPc, svIdx, svLog, svConnected, svRet, clPc, clConn, clRan, clPending,
                   hid, hidTerm, hidPrev, cliPc, cliSigCh, cliHandler, cliShutdownCh,
                   cliStops, cliSignals, cwr, sel, lgPc, lgDevice, lgStopCh, lgErrors,
                   lgCheckers, lgLoops, lgHw, lgMutex, lgCallback, lgStopPc, lgChanges,
                   lgLast>>

\* more than 100 ms pass since hidProcessor.lastActivity
TimePasses ==
    /\ buffer # <<>>
    /\ sinceActivity = 0
    /\ sinceActivity' = 1
    /\ UNCHANGED <<pc, ctxDone, device, deviceInfo, connected, local, tokenRet, rpc, rdev,
                   rdata, dataChan, errorChan, buffer, bufSrc, terminationChar, stopPc,
                   stopCalls, hw, hwInfo, openHandles, nextHandle, goneHandles, nReads,
                   broker, haKnown, events, smConfigs, smScanners, smStopCh, smSess, smPc,
                   smIdx, smConnected, smDisconnected, smResult, smStopCalls, smPanicked,
                   smOpenable, smProbed, brPhase, transport, cConnected, onConnectSet,
                   haScanners, haConnected, sess, retBridge, retEntityConfig, retAvail,
                   retConfig, lastSet, seenConnect, mapOp, mapAcc, diagSummary, diagConn,
                   wire, pubOp, pubId, pubRet, pubCalls, svPc, svIdx, svLog, svConnected,
                   svRet, clPc, clConn, clRan, clPending, hid, hidTerm, hidPrev, cliPc,
                   cliSigCh, cliHandler, cliShutdownCh, cliStops, cliSignals, cwr, sel,
                   lgPc, lgDevice, lgStopCh, lgErrors, lgCheckers, lgLoops, lgHw, lgMutex,
                   lgCallback, lgStopPc, lgChanges, lgLast>>

\* the broker connection changes: lost, stalled (no answers), or healthy
BrokerChange ==
    /\ broker' \in {"down", "stalled", "ok"} \ {broker}
    /\ UNCHANGED <<pc, ctxDone, device, deviceInfo, connected, local, tokenRet, rpc, rdev,
                   rdata, dataChan, errorChan, buffer, sinceActivity, bufSrc,
                   terminationChar, stopPc, stopCalls, hw, hwInfo, openHandles, nextHandle,
                   goneHandles, nReads, haKnown, events, smConfigs, smScanners, smStopCh,
                   smSess, smPc, smIdx, smConnected, smDisconnected, smResult, smStopCalls,
                   smPanicked, smOpenable, smProbed, brPhase, transport, cConnected,
                   onConnectSet, haScanners, haConnected, sess, retBridge, retEntityConfig,
                   retAvail, retConfig, lastSet, seenConnect, mapOp, mapAcc, diagSummary,
                   diagConn, wire, pubOp, pubId, pubRet, pubCalls, svPc, svIdx, svLog,
                   svConnected, svRet, clPc, clConn, clRan, clPending, hid, hidTerm,
                   hidPrev, cliPc, cliSigCh, cliHandler, cliShutdownCh, cliStops,
                   cliSignals, cwr, sel, lgPc, lgDevice, lgStopCh, lgErrors, lgCheckers,
                   lgLoops, lgHw, lgMutex, lgCallback, lgStopPc, lgChanges, lgLast>>

NextSession ==
    \/ Start \/ connectionManager \/ findAndOpenDevice \/ tryConnectAssign
    \/ tryConnectStore \/ tryConnectCallback \/ runReadLoop \/ selectCtxDone
    \/ selectTick \/ selectData \/ selectError \/ disconnectStore
    \/ disconnectClose \/ disconnectCallback \/ waitCtxDone \/ waitReconnectDelay
    \/ readerTop \/ readerTimeout \/ readerData \/ readerError
    \/ readerSendData \/ readerSendErr \/ StopCancel \/ StopClose
    \/ Unplug \/ Plug \/ TimePasses

SpecSession == InitSession /\ [][NextSession]_vars

\* the connectionManager goroutine and the reader goroutine, never stopped
SessionTask ==
    \/ Start \/ connectionManager \/ findAndOpenDevice \/ tryConnectAssign
    \/ tryConnectStore \/ tryConnectCallback \/ runReadLoop
    \/ selectTick \/ selectData \/ selectError \/ disconnectStore
    \/ disconnectClose \/ disconnectCallback \/ waitReconnectDelay \/ tokenWait

ReaderTask ==
    \/ readerTop \/ readerTimeout \/ readerData \/ readerError
    \/ readerSendData \/ readerSendErr

NextSessionBroker ==
    \/ Start \/ connectionManager \/ findAndOpenDevice \/ tryConnectAssign
    \/ tryConnectStore \/ tryConnectCallback \/ runReadLoop
    \/ selectTick \/ selectData \/ selectError \/ disconnectStore
    \/ disconnectClose \/ disconnectCallback \/ waitReconnectDelay \/ tokenWait
    \/ readerTop \/ readerTimeout \/ readerData \/ readerError
    \/ readerSendData \/ readerSendErr
    \/ Unplug \/ Plug \/ TimePasses \/ BrokerChange

SpecSessionBroker == InitSessionBroker /\ [][NextSessionBroker]_vars


\* a session in the middle of an epoch: handle 1 is open and announced, the
\* reader goroutine is at its loop head, and the idle reports it has read
\* while the session task was busy fill dataChan
InitSessionBacklog ==
    /\ pc = "select"
    /\ ctxDone = FALSE
    /\ device = 1
    /\ hwInfo = CHOOSE i \in RawInfos : i.manufacturer = <<>>
    /\ deviceInfo = normalizeDeviceInfo(hwInfo)
    /\ connected = 1
    /\ local = [dev |-> 1, info |-> normalizeDeviceInfo(hwInfo)]
    /\ tokenRet = "none"
    /\ rpc = "top"
    /\ rdev = Nil
    /\ rdata = NilData
    /\ dataChan = [i \in 1..DataChanCap |-> [data |-> <<0, 0, 0>>, n |-> 0, ep |-> 1]]
    /\ errorChan = <<>>
    /\ buffer = <<>>
    /\ sinceActivity = 0
    /\ bufSrc = NoSrc
    /\ terminationChar = "enter"
    /\ stopPc = "idle"
    /\ stopCalls = 0
    /\ hw = "present"
    /\ openHandles = {1}
    /\ goneHandles = {}
    /\ nextHandle = 1
    /\ nReads = MaxReads - 1
    /\ haKnown = TRUE
    /\ events = <<[kind |-> "conn", val |-> TRUE, ep |-> 1, open |-> TRUE,
                   n |-> 0, rep |-> 0, barcode |-> <<>>]>>
    /\ broker = "down"
    /\ IdleManager
    /\ NewBridge
    /\ IdleMapTasks
    /\ NewHIDProcessor("enter")
    /\ IdleLegacy

\* the started session with Stop, from the backlog on
NextSessionStop ==
    \/ connectionManager \/ findAndOpenDevice \/ tryConnectAssign
    \/ tryConnectStore \/ tryConnectCallback \/ runReadLoop \/ selectCtxDone
    \/ selectTick \/ selectData \/ selectError \/ disconnectStore
    \/ disconnectClose \/ disconnectCallback \/ waitCtxDone \/ waitReconnectDelay
    \/ readerTop \/ readerTimeout \/ readerData \/ readerError
    \/ readerSendData \/ readerSendErr \/ StopCancel \/ StopClose
    \/ Unplug \/ Plug \/ TimePasses

\* the Go scheduler runs every runnable goroutine, a select whose ctx.Done()
\* case stays ready takes it sooner or later, and a Stop that was called
\* runs to its end
SpecSessionStopFair ==
    /\ InitSessionBacklog /\ [][NextSessionStop]_vars
    /\ WF_vars(SessionTask)
    /\ WF_vars(ReaderTask)
    /\ SF_vars(selectCtxDone)
    /\ WF_vars(waitCtxDone)
    /\ WF_vars(StopClose)
\* ======================================================= ScannerManager
ConfigIds == {smConfigs[i] : i \in 1..Len(smConfigs)}

InitManager ==
    /\ \E c \in ConfigLists : NewScannerManager(c)
    /\ smOpenable \in [ScannerIds -> BOOLEAN]
    /\ IdleSession
    /\ NewBridge
    /\ IdleMapTasks
    /\ NewHIDProcessor("enter")
    /\ IdleLegacy

\* ScannerManager.Start: entry, checkInitialConnections begins
smStart ==
    /\ smPc = "idle"
    /\ smStopCalls = 0
    /\ ~smPanicked
    /\ smPc' = "probe"
    /\ smIdx' = 1
    /\ smConnected' = 0
    /\ smDisconnected' = 0
    /\ UNCHANGED <<pc, ctxDone, device, deviceInfo, connected, local, tokenRet, rpc, rdev,
                   rdata, dataChan, errorChan, buffer, sinceActivity, bufSrc,
                   terminationChar, stopPc, stopCalls, hw, hwInfo, openHandles, nextHandle,
                   goneHandles, nReads, broker, haKnown, events, smConfigs, smScanners,
                   smStopCh, smSess, smResult, smStopCalls, smPanicked, smOpenable,
                   smProbed, brPhase, transport, cConnected, onConnectSet, haScanners,
                   haConnected, sess, retBridge, retEntityConfig, retAvail, retConfig,
                   lastSet, seenConnect, mapOp, mapAcc, diagSummary, diagConn, wire, pubOp,
                   pubId, pubRet, pubCalls, svPc, svIdx, svLog, svConnected, svRet, clPc,
                   clConn, clRan, clPending, hid, hidTerm, hidPrev, cliPc, cliSigCh,
                   cliHandler, cliShutdownCh, cliStops, cliSignals, cwr, sel, lgPc,
                   lgDevice, lgStopCh, lgErrors, lgCheckers, lgLoops, lgHw, lgMutex,
                   lgCallback, lgStopPc, lgChanges, lgLast>>

\* checkInitialConnections: one TryInitialConnect probe (open and close)
checkInitialConnectionsProbe ==
    /\ smPc = "probe"
    /\ smIdx <= Len(smConfigs)
    /\ LET id == smConfigs[smIdx]
       IN  IF smOpenable[id]
           THEN /\ smConnected' = smConnected + 1
                /\ smProbed' = [smProbed EXCEPT ![id] = "ok"]
                /\ UNCHANGED smDisconnected
           ELSE /\ smDisconnected' = smDisconnected + 1
                /\ smProbed' = [smProbed EXCEPT ![id] = "fail"]
                /\ UNCHANGED smConnected
    /\ smIdx' = smIdx + 1
    /\ UNCHANGED <<pc, ctxDone, device, deviceInfo, connected, local, tokenRet, rpc, rdev,
                   rdata, dataChan, errorChan, buffer, sinceActivity, bufSrc,
                   terminationChar, stopPc, stopCalls, hw, hwInfo, openHandles, nextHandle,
                   goneHandles, nReads, broker, haKnown, events, smConfigs, smScanners,
                   smStopCh, smSess, smPc, smResult, smStopCalls, smPanicked, smOpenable,
                   brPhase, transport, cConnected, onConnectSet, haScanners, haConnected,
                   sess, retBridge, retEntityConfig, retAvail, retConfig, lastSet,
                   seenConnect, mapOp, mapAcc, diagSummary, diagConn, wire, pubOp, pubId,
                   pubRet, pubCalls, svPc, svIdx, svLog, svConnected, svRet, clPc, clConn,
                   clRan, clPending, hid, hidTerm, hidPrev, cliPc, cliSigCh, cliHandler,
                   cliShutdownCh, cliStops, cliSignals, cwr, sel, lgPc, lgDevice, lgStopCh,
                   lgErrors, lgCheckers, lgLoops, lgHw, lgMutex, lgCallback, lgStopPc,
                   lgChanges, lgLast>>

\* the check counting failures instead: fatal as soon as one probe failed
anyDisconnected(nConnected, nConfigs) == nConnected < nConfigs

\* checkInitialConnections: connected == 0 && len(sm.configs) > 0
noneConnected(nConnected, nConfigs) == nConnected = 0 /\ nConfigs > 0

\* checkInitialConnections returns; Start returns its error or goes on
checkInitialConnectionsReturn ==
    /\ smPc = "probe"
    /\ smIdx > Len(smConfigs)
    /\ IF noneConnected(smConnected, Len(smConfigs))
       THEN smPc' = "done" /\ smResult' = "fatal" /\ UNCHANGED smIdx
       ELSE smPc' = "start" /\ smIdx' = 1 /\ UNCHANGED smResult
    /\ UNCHANGED <<pc, ctxDone, device, deviceInfo, connected, local, tokenRet, rpc, rdev,
                   rdata, dataChan, errorChan, buffer, sinceActivity, bufSrc,
                   terminationChar, stopPc, stopCalls, hw, hwInfo, openHandles, nextHandle,
                   goneHandles, nReads, broker, haKnown, events, smConfigs, smScanners,
                   smStopCh, smSess, smConnected, smDisconnected, smStopCalls, smPanicked,
                   smOpenable, smProbed, brPhase, transport, cConnected, onConnectSet,
                   haScanners, haConnected, sess, retBridge, retEntityConfig, retAvail,
                   retConfig, lastSet, seenConnect, mapOp, mapAcc, diagSummary, diagConn,
                   wire, pubOp, pubId, pubRet, pubCalls, svPc, svIdx, svLog, svConnected,
                   svRet, clPc, clConn, clRan, clPending, hid, hidTerm, hidPrev, cliPc,
                   cliSigCh, cliHandler, cliShutdownCh, cliStops, cliSignals, cwr, sel,
                   lgPc, lgDevice, lgStopCh, lgErrors, lgCheckers, lgLoops, lgHw, lgMutex,
                   lgCallback, lgStopPc, lgChanges, lgLast>>

\* BarcodeScanner.Start as startScanner sees it: it always returns nil
scannerStartFails == FALSE

\* Start: one startScanner(&cfg): store the session, then Start it
startScanner ==
    /\ smPc = "start"
    /\ smIdx <= Len(smConfigs)
    /\ LET id == smConfigs[smIdx]
       IN  IF scannerStartFails
           THEN UNCHANGED <<smScanners, smSess>>
           ELSE /\ smScanners' = smScanners \cup {id}
                /\ smSess' = [smSess EXCEPT ![id] = "running"]
    /\ smIdx' = smIdx + 1
    /\ UNCHANGED <<pc, ctxDone, device, deviceInfo, connected, local, tokenRet, rpc, rdev,
                   rdata, dataChan, errorChan, buffer, sinceActivity, bufSrc,
                   terminationChar, stopPc, stopCalls, hw, hwInfo, openHandles, nextHandle,
                   goneHandles, nReads, broker, haKnown, events, smConfigs, smStopCh, smPc,
                   smConnected, smDisconnected, smResult, smStopCalls, smPanicked,
                   smOpenable, smProbed, brPhase, transport, cConnected, onConnectSet,
                   haScanners, haConnected, sess, retBridge, retEntityConfig, retAvail,
                   retConfig, lastSet, seenConnect, mapOp, mapAcc, diagSummary, diagConn,
                   wire, pubOp, pubId, pubRet, pubCalls, svPc, svIdx, svLog, svConnected,
                   svRet, clPc, clConn, clRan, clPending, hid, hidTerm, hidPrev, cliPc,
                   cliSigCh, cliHandler, cliShutdownCh, cliStops, cliSignals, cwr, sel,
                   lgPc, lgDevice, lgStopCh, lgErrors, lgCheckers, lgLoops, lgHw, lgMutex,
                   lgCallback, lgStopPc, lgChanges, lgLast>>

\* Start: return nil
smStartReturn ==
    /\ smPc = "start"
    /\ smIdx > Len(smConfigs)
    /\ smPc' = "done"
    /\ smResult' = "nil"
    /\ UNCHANGED <<pc, ctxDone, device, deviceInfo, connected, local, tokenRet, rpc, rdev,
                   rdata, dataChan, errorChan, buffer, sinceActivity, bufSrc,
                   terminationChar, stopPc, stopCalls, hw, hwInfo, openHandles, nextHandle,
                   goneHandles, nReads, broker, haKnown, events, smConfigs, smScanners,
                   smStopCh, smSess, smIdx, smConnected, smDisconnected, smStopCalls,
                   smPanicked, smOpenable, smProbed, brPhase, transport, cConnected,
                   onConnectSet, haScanners, haConnected, sess, retBridge, retEntityConfig,
                   retAvail, retConfig, lastSet, seenConnect, mapOp, mapAcc, diagSummary,
                   diagConn, wire, pubOp, pubId, pubRet, pubCalls, svPc, svIdx, svLog,
                   svConnected, svRet, clPc, clConn, clRan, clPending, hid, hidTerm,
                   hidPrev, cliPc, cliSigCh, cliHandler, cliShutdownCh, cliStops,
                   cliSignals, cwr, sel, lgPc, lgDevice, lgStopCh, lgErrors, lgCheckers,
                   lgLoops, lgHw, lgMutex, lgCallback, lgStopPc, lgChanges, lgLast>>

\* ScannerManager.Stop: close(sm.stopCh) panics on a closed channel;
\* otherwise every stored session is stopped and the map is replaced
smStop ==
    /\ smPc \in {"idle", "done"}
    /\ ~smPanicked
    /\ smStopCalls < MaxStopCalls
    /\ smStopCalls' = smStopCalls + 1
    /\ IF smStopCh = "closed"
       THEN smPanicked' = TRUE /\ UNCHANGED <<smStopCh, smSess, smScanners>>
       ELSE /\ smStopCh' = "closed"
            /\ smSess' = [id \in ScannerIds |->
                            IF id \in smScanners THEN "stopped" ELSE smSess[id]]
            /\ smScanners' = {}
            /\ UNCHANGED smPanicked
    /\ UNCHANGED <<pc, ctxDone, device, deviceInfo, connected, local, tokenRet, rpc, rdev,
                   rdata, dataChan, errorChan, buffer, sinceActivity, bufSrc,
                   terminationChar, stopPc, stopCalls, hw, hwInfo, openHandles, nextHandle,
                   goneHandles, nReads, broker, haKnown, events, smConfigs, smPc, smIdx,
                   smConnected, smDisconnected, smResult, smOpenable, smProbed, brPhase,
                   transport, cConnected, onConnectSet, haScanners, haConnected, sess,
                   retBridge, retEntityConfig, retAvail, retConfig, lastSet, seenConnect,
                   mapOp, mapAcc, diagSummary, diagConn, wire, pubOp, pubId, pubRet,
                   pubCalls, svPc, svIdx, svLog, svConnected, svRet, clPc, clConn, clRan,
                   clPending, hid, hidTerm, hidPrev, cliPc, cliSigCh, cliHandler,
                   cliShutdownCh, cliStops, cliSignals, cwr, sel, lgPc, lgDevice, lgStopCh,
                   lgErrors, lgCheckers, lgLoops, lgHw, lgMutex, lgCallback, lgStopPc,
                   lgChanges, lgLast>>

\* a device is plugged or unplugged, or its permissions change
smDeviceChange ==
    /\ ~smPanicked
    /\ \E id \in ScannerIds :
          smOpenable' = [smOpenable EXCEPT ![id] = ~@]
    /\ UNCHANGED <<pc, ctxDone, device, deviceInfo, connected, local, tokenRet, rpc, rdev,
                   rdata, dataChan, errorChan, buffer, sinceActivity, bufSrc,
                   terminationChar, stopPc, stopCalls, hw, hwInfo, openHandles, nextHandle,
                   goneHandles, nReads, broker, haKnown, events, smConfigs, smScanners,
                   smStopCh, smSess, smPc, smIdx, smConnected, smDisconnected, smResult,
                   smStopCalls, smPanicked, smProbed, brPhase, transport, cConnected,
                   onConnectSet, haScanners, haConnected, sess, retBridge, retEntityConfig,
                   retAvail, retConfig, lastSet, seenConnect, mapOp, mapAcc, diagSummary,
                   diagConn, wire, pubOp, pubId, pubRet, pubCalls, svPc, svIdx, svLog,
                   svConnected, svRet, clPc, clConn, clRan, clPending, hid, hidTerm,
                   hidPrev, cliPc, cliSigCh, cliHandler, cliShutdownCh, cliStops,
                   cliSignals, cwr, sel, lgPc, lgDevice, lgStopCh, lgErrors, lgCheckers,
                   lgLoops, lgHw, lgMutex, lgCallback, lgStopPc, lgChanges, lgLast>>

NextManager ==
    \/ smStart \/ checkInitialConnectionsProbe \/ checkInitialConnectionsReturn
    \/ startScanner \/ smStartReturn \/ smStop \/ smDeviceChange

SpecManager == InitManager /\ [][NextManager]_vars

\* ------------------------------------------------------- manager: claims
\* C8: Stop is idempotent: after any number of Stop calls the manager has
\* not panicked and is in the state a single Stop leaves: channel closed, no
\* stored session, no running session.
C8_StopIdempotent ==
    smStopCalls >= 1 =>
        /\ ~smPanicked
        /\ smStopCh = "closed"
        /\ smScanners = {}
        /\ \A id \in ScannerIds : smSess[id] # "running"

AllProbesFailed ==
    /\ Len(smConfigs) > 0
    /\ \A id \in ConfigIds : smProbed[id] = "fail"

\* C9: Start returns the fatal error, with no session stored or started,
\* iff at least one scanner is configured and every probe failed; otherwise
\* it returns nil and every configured scanner has a stored, started session.
C9_StartResult ==
    smResult # "none" =>
        /\ smResult = "fatal" <=> AllProbesFailed
        /\ smResult = "fatal" =>
              smScanners = {} /\ \A id \in ScannerIds : smSess[id] = "none"
        /\ smResult = "nil" /\ smStopCalls = 0 =>
              /\ smScanners = ConfigIds
              /\ \A id \in ConfigIds : smSess[id] = "running"
        /\ smResult = "nil" =>
              \A id \in ConfigIds : smSess[id] # "none"

\* Start returned nil although one probe failed, and both sessions run
C9_Witness ==
    /\ smResult = "nil"
    /\ \E id \in ConfigIds : smProbed[id] = "fail"
    /\ \E id \in ConfigIds : smProbed[id] = "ok"
    /\ \A id \in ConfigIds : smSess[id] = "running"

\* ============================== ServiceManager, Client, Integration, broker
InitBridge ==
    /\ NewBridge
    /\ IdleSession
    /\ IdleManager
    /\ IdleMapTasks
    /\ NewHIDProcessor("enter")
    /\ IdleLegacy

\* Client.IsConnected: c.connected && c.client.IsConnected()
IsConnected == cConnected /\ transport = "up"

\* the phases in which paho still holds, or tries to regain, the connection
ClientAlive == brPhase \in {"mqtt", "ha", "run", "stop1", "stop2"}

Availability(x) == IF x THEN "online" ELSE "offline"

\* retained discovery configs after Integration.handleConnect has published
\* one for every key of integration.scanners
ConfigsRepublished(known) ==
    [id \in ScannerIds |-> IF id \in known THEN TRUE ELSE retConfig[id]]

\* Integration.handleConnect on a connected client: bridge entity configs,
\* scanner configs, bridge availability "online"; no scanner availability
handleConnect ==
    /\ retEntityConfig' = TRUE
    /\ retConfig' = ConfigsRepublished(haScanners)
    /\ retBridge' = "online"

\* StartAll: Client.Connect and WaitForConnection; Client.handleConnect sets
\* connected and publishes "online" on the will topic
mqttStart ==
    /\ brPhase = "new"
    /\ brPhase' = "mqtt"
    /\ transport' = "up"
    /\ cConnected' = TRUE
    /\ retBridge' = "online"
    /\ UNCHANGED <<pc, ctxDone, device, deviceInfo, connected, local, tokenRet, rpc, rdev,
                   rdata, dataChan, errorChan, buffer, sinceActivity, bufSrc,
                   terminationChar, stopPc, stopCalls, hw, hwInfo, openHandles, nextHandle,
                   goneHandles, nReads, broker, haKnown, events, smConfigs, smScanners,
                   smStopCh, smSess, smPc, smIdx, smConnected, smDisconnected, smResult,
                   smStopCalls, smPanicked, smOpenable, smProbed, onConnectSet, haScanners,
                   haConnected, sess, retEntityConfig, retAvail, retConfig, lastSet,
                   seenConnect, mapOp, mapAcc, diagSummary, diagConn, wire, pubOp, pubId,
                   pubRet, pubCalls, svPc, svIdx, svLog, svConnected, svRet, clPc, clConn,
                   clRan, clPending, hid, hidTerm, hidPrev, cliPc, cliSigCh, cliHandler,
                   cliShutdownCh, cliStops, cliSignals, cwr, sel, lgPc, lgDevice, lgStopCh,
                   lgErrors, lgCheckers, lgLoops, lgHw, lgMutex, lgCallback, lgStopPc,
                   lgChanges, lgLast>>

\* StartAll: Integration.Start registers the callbacks and, when connected,
\* runs handleConnect
IntegrationStart ==
    /\ brPhase = "mqtt"
    /\ brPhase' = "ha"
    /\ onConnectSet' = TRUE
    /\ IF IsConnected THEN handleConnect
       ELSE UNCHANGED <<retEntityConfig, retConfig, retBridge>>
    /\ UNCHANGED <<pc, ctxDone, device, deviceInfo, connected, local, tokenRet, rpc, rdev,
                   rdata, dataChan, errorChan, buffer, sinceActivity, bufSrc,
                   terminationChar, stopPc, stopCalls, hw, hwInfo, openHandles, nextHandle,
                   goneHandles, nReads, broker, haKnown, events, smConfigs, smScanners,
                   smStopCh, smSess, smPc, smIdx, smConnected, smDisconnected, smResult,
                   smStopCalls, smPanicked, smOpenable, smProbed, transport, cConnected,
                   haScanners, haConnected, sess, retAvail, lastSet, seenConnect, mapOp,
                   mapAcc, diagSummary, diagConn, wire, pubOp, pubId, pubRet, pubCalls,
                   svPc, svIdx, svLog, svConnected, svRet, clPc, clConn, clRan, clPending,
                   hid, hidTerm, hidPrev, cliPc, cliSigCh, cliHandler, cliShutdownCh,
                   cliStops, cliSignals, cwr, sel, lgPc, lgDevice, lgStopCh, lgErrors,
                   lgCheckers, lgLoops, lgHw, lgMutex, lgCallback, lgStopPc, lgChanges,
                   lgLast>>

\* StartAll: ScannerManager.Start stores and starts every session
ManagerStart ==
    /\ brPhase = "ha"
    /\ brPhase' = "run"
    /\ sess' = [id \in ScannerIds |-> "search"]
    /\ UNCHANGED <<pc, ctxDone, device, deviceInfo, connected, local, tokenRet, rpc, rdev,
                   rdata, dataChan, errorChan, buffer, sinceActivity, bufSrc,
                   terminationChar, stopPc, stopCalls, hw, hwInfo, openHandles, nextHandle,
                   goneHandles, nReads, broker, haKnown, events, smConfigs, smScanners,
                   smStopCh, smSess, smPc, smIdx, smConnected, smDisconnected, smResult,
                   smStopCalls, smPanicked, smOpenable, smProbed, transport, cConnected,
                   onConnectSet, haScanners, haConnected, retBridge, retEntityConfig,
                   retAvail, retConfig, lastSet, seenConnect, mapOp, mapAcc, diagSummary,
                   diagConn, wire, pubOp, pubId, pubRet, pubCalls, svPc, svIdx, svLog,
                   svConnected, svRet, clPc, clConn, clRan, clPending, hid, hidTerm,
                   hidPrev, cliPc, cliSigCh, cliHandler, cliShutdownCh, cliStops,
                   cliSignals, cwr, sel, lgPc, lgDevice, lgStopCh, lgErrors, lgCheckers,
                   lgLoops, lgHw, lgMutex, lgCallback, lgStopPc, lgChanges, lgLast>>

\* the connection is lost: the broker publishes the will, paho calls
\* Client.handleDisconnect
connectionLost ==
    /\ ClientAlive
    /\ transport = "up"
    /\ transport' = "down"
    /\ cConnected' = FALSE
    /\ retBridge' = "offline"
    /\ UNCHANGED <<pc, ctxDone, device, deviceInfo, connected, local, tokenRet, rpc, rdev,
                   rdata, dataChan, errorChan, buffer, sinceActivity, bufSrc,
                   terminationChar, stopPc, stopCalls, hw, hwInfo, openHandles, nextHandle,
                   goneHandles, nReads, broker, haKnown, events, smConfigs, smScanners,
                   smStopCh, smSess, smPc, smIdx, smConnected, smDisconnected, smResult,
                   smStopCalls, smPanicked, smOpenable, smProbed, brPhase, onConnectSet,
                   haScanners, haConnected, sess, retEntityConfig, retAvail, retConfig,
                   lastSet, seenConnect, mapOp, mapAcc, diagSummary, diagConn, wire, pubOp,
                   pubId, pubRet, pubCalls, svPc, svIdx, svLog, svConnected, svRet, clPc,
                   clConn, clRan, clPending, hid, hidTerm, hidPrev, cliPc, cliSigCh,
                   cliHandler, cliShutdownCh, cliStops, cliSignals, cwr, sel, lgPc,
                   lgDevice, lgStopCh, lgErrors, lgCheckers, lgLoops, lgHw, lgMutex,
                   lgCallback, lgStopPc, lgChanges, lgLast>>

\* paho reconnects: Client.handleConnect, then Integration.handleConnect
reconnect ==
    /\ ClientAlive
    /\ transport = "down"
    /\ transport' = "up"
    /\ cConnected' = TRUE
    /\ IF onConnectSet THEN handleConnect
       ELSE /\ retBridge' = "online"
            /\ UNCHANGED <<retEntityConfig, retConfig>>
    /\ UNCHANGED <<pc, ctxDone, device, deviceInfo, connected, local, tokenRet, rpc, rdev,
                   rdata, dataChan, errorChan, buffer, sinceActivity, bufSrc,
                   terminationChar, stopPc, stopCalls, hw, hwInfo, openHandles, nextHandle,
                   goneHandles, nReads, broker, haKnown, events, smConfigs, smScanners,
                   smStopCh, smSess, smPc, smIdx, smConnected, smDisconnected, smResult,
                   smStopCalls, smPanicked, smOpenable, smProbed, brPhase, onConnectSet,
                   haScanners, haConnected, sess, retAvail, lastSet, seenConnect, mapOp,
                   mapAcc, diagSummary, diagConn, wire, pubOp, pubId, pubRet, pubCalls,
                   svPc, svIdx, svLog, svConnected, svRet, clPc, clConn, clRan, clPending,
                   hid, hidTerm, hidPrev, cliPc, cliSigCh, cliHandler, cliShutdownCh,
                   cliStops, cliSignals, cwr, sel, lgPc, lgDevice, lgStopCh, lgErrors,
                   lgCheckers, lgLoops, lgHw, lgMutex, lgCallback, lgStopPc, lgChanges,
                   lgLast>>

\* a session's tryConnect has opened its device; callback(true) is next
sessOpen(id) ==
    /\ brPhase = "run"
    /\ sess[id] = "search"
    /\ sess' = [sess EXCEPT ![id] = "opened"]
    /\ UNCHANGED <<pc, ctxDone, device, deviceInfo, connected, local, tokenRet, rpc, rdev,
                   rdata, dataChan, errorChan, buffer, sinceActivity, bufSrc,
                   terminationChar, stopPc, stopCalls, hw, hwInfo, openHandles, nextHandle,
                   goneHandles, nReads, broker, haKnown, events, smConfigs, smScanners,
                   smStopCh, smSess, smPc, smIdx, smConnected, smDisconnected, smResult,
                   smStopCalls, smPanicked, smOpenable, smProbed, brPhase, transport,
                   cConnected, onConnectSet, haScanners, haConnected, retBridge,
                   retEntityConfig, retAvail, retConfig, lastSet, seenConnect, mapOp,
                   mapAcc, diagSummary, diagConn, wire, pubOp, pubId, pubRet, pubCalls,
                   svPc, svIdx, svLog, svConnected, svRet, clPc, clConn, clRan, clPending,
                   hid, hidTerm, hidPrev, cliPc, cliSigCh, cliHandler, cliShutdownCh,
                   cliStops, cliSignals, cwr, sel, lgPc, lgDevice, lgStopCh, lgErrors,
                   lgCheckers, lgLoops, lgHw, lgMutex, lgCallback, lgStopPc, lgChanges,
                   lgLast>>

\* Integration.getConnectedScannerCount over the ScannerDevice map
getConnectedScannerCount(m) == Cardinality({i \in m.known : m.conn[i]})

\* Integration.getScannerSummaryStatus: totalCount is len(integration.scanners)
getScannerSummaryStatus(m) ==
    IF getConnectedScannerCount(m) = 0 THEN "offline"
    ELSE IF getConnectedScannerCount(m) = Cardinality(m.known) THEN "online"
    ELSE "partial"

\* bridgeEntities.publishAllStates on a connected client
publishAllStates(m) ==
    [m EXCEPT !.summary = getScannerSummaryStatus(m),
              !.summaryConn = {i \in m.known : m.conn[i]}]

\* SetScannerConnected that reports a change only: a repeated value is
\* published as "offline"
SetScannerConnectedOnChange(m, id, x) ==
    IF id \notin m.known THEN m
    ELSE [m EXCEPT !.conn[id] = x,
                   !.avail[id] = IF IsConnected
                                 THEN Availability(x /\ ~m.conn[id]) ELSE @]

\* Integration.SetScannerConnected(id, x) on the maps (known, conn, avail)
\* and the diagnostics summary
SetScannerConnected(m, id, x) ==
    IF id \notin m.known THEN m
    ELSE LET m1 == [m EXCEPT !.conn[id] = x,
                             !.avail[id] = IF IsConnected THEN Availability(x) ELSE @]
         IN  IF IsConnected THEN publishAllStates(m1) ELSE m1

\* Integration.SetScannerDeviceInfo(id, info) on the maps and the configs
SetScannerDeviceInfo(m, id) ==
    [m EXCEPT !.known = @ \cup {id},
              !.conn[id] = FALSE,
              !.avail[id] = IF IsConnected THEN "offline" ELSE @,
              !.config[id] = IF IsConnected THEN TRUE ELSE @]

HaMaps ==
    [known |-> haScanners, conn |-> haConnected, avail |-> retAvail,
     config |-> retConfig, summary |-> diagSummary, summaryConn |-> diagConn]

\* callback(true) of session id: createMultiConnectionHandler
onConnected(id) ==
    /\ sess[id] = "opened"
    /\ LET found == brPhase = "run"
           m1 == IF found THEN SetScannerDeviceInfo(HaMaps, id) ELSE HaMaps
           m2 == SetScannerConnected(m1, id, TRUE)
       IN  /\ haScanners' = m2.known
           /\ haConnected' = m2.conn
           /\ retAvail' = m2.avail
           /\ retConfig' = m2.config
           /\ diagSummary' = m2.summary
           /\ diagConn' = m2.summaryConn
           /\ seenConnect' = [seenConnect EXCEPT ![id] = @ \/ found]
    /\ lastSet' = [lastSet EXCEPT ![id] = "true"]
    /\ sess' = [sess EXCEPT ![id] = IF brPhase = "run" THEN "drain" ELSE "off"]
    /\ UNCHANGED <<pc, ctxDone, device, deviceInfo, connected, local, tokenRet, rpc, rdev,
                   rdata, dataChan, errorChan, buffer, sinceActivity, bufSrc,
                   terminationChar, stopPc, stopCalls, hw, hwInfo, openHandles, nextHandle,
                   goneHandles, nReads, broker, haKnown, events, smConfigs, smScanners,
                   smStopCh, smSess, smPc, smIdx, smConnected, smDisconnected, smResult,
                   smStopCalls, smPanicked, smOpenable, smProbed, brPhase, transport,
                   cConnected, onConnectSet, retBridge, retEntityConfig, mapOp, mapAcc,
                   wire, pubOp, pubId, pubRet, pubCalls, svPc, svIdx, svLog, svConnected,
                   svRet, clPc, clConn, clRan, clPending, hid, hidTerm, hidPrev, cliPc,
                   cliSigCh, cliHandler, cliShutdownCh, cliStops, cliSignals, cwr, sel,
                   lgPc, lgDevice, lgStopCh, lgErrors, lgCheckers, lgLoops, lgHw, lgMutex,
                   lgCallback, lgStopPc, lgChanges, lgLast>>

\* a read of session id fails: disconnect() up to its callback
sessReadError(id) ==
    /\ brPhase = "run"
    /\ sess[id] = "drain"
    /\ sess' = [sess EXCEPT ![id] = "closing"]
    /\ UNCHANGED <<pc, ctxDone, device, deviceInfo, connected, local, tokenRet, rpc, rdev,
                   rdata, dataChan, errorChan, buffer, sinceActivity, bufSrc,
                   terminationChar, stopPc, stopCalls, hw, hwInfo, openHandles, nextHandle,
                   goneHandles, nReads, broker, haKnown, events, smConfigs, smScanners,
                   smStopCh, smSess, smPc, smIdx, smConnected, smDisconnected, smResult,
                   smStopCalls, smPanicked, smOpenable, smProbed, brPhase, transport,
                   cConnected, onConnectSet, haScanners, haConnected, retBridge,
                   retEntityConfig, retAvail, retConfig, lastSet, seenConnect, mapOp,
                   mapAcc, diagSummary, diagConn, wire, pubOp, pubId, pubRet, pubCalls,
                   svPc, svIdx, svLog, svConnected, svRet, clPc, clConn, clRan, clPending,
                   hid, hidTerm, hidPrev, cliPc, cliSigCh, cliHandler, cliShutdownCh,
                   cliStops, cliSignals, cwr, sel, lgPc, lgDevice, lgStopCh, lgErrors,
                   lgCheckers, lgLoops, lgHw, lgMutex, lgCallback, lgStopPc, lgChanges,
                   lgLast>>

\* callback(false) of session id: createMultiConnectionHandler
onDisconnected(id) ==
    /\ sess[id] = "closing"
    /\ LET m == SetScannerConnected(HaMaps, id, FALSE)
       IN  /\ haConnected' = m.conn
           /\ retAvail' = m.avail
           /\ diagSummary' = m.summary
           /\ diagConn' = m.summaryConn
    /\ lastSet' = [lastSet EXCEPT ![id] = "false"]
    /\ sess' = [sess EXCEPT ![id] = IF brPhase = "run" THEN "search" ELSE "off"]
    /\ UNCHANGED <<pc, ctxDone, device, deviceInfo, connected, local, tokenRet, rpc, rdev,
                   rdata, dataChan, errorChan, buffer, sinceActivity, bufSrc,
                   terminationChar, stopPc, stopCalls, hw, hwInfo, openHandles, nextHandle,
                   goneHandles, nReads, broker, haKnown, events, smConfigs, smScanners,
                   smStopCh, smSess, smPc, smIdx, smConnected, smDisconnected, smResult,
                   smStopCalls, smPanicked, smOpenable, smProbed, brPhase, transport,
                   cConnected, onConnectSet, haScanners, retBridge, retEntityConfig,
                   retConfig, seenConnect, mapOp, mapAcc, wire, pubOp, pubId, pubRet,
                   pubCalls, svPc, svIdx, svLog, svConnected, svRet, clPc, clConn, clRan,
                   clPending, hid, hidTerm, hidPrev, cliPc, cliSigCh, cliHandler,
                   cliShutdownCh, cliStops, cliSignals, cwr, sel, lgPc, lgDevice, lgStopCh,
                   lgErrors, lgCheckers, lgLoops, lgHw, lgMutex, lgCallback, lgStopPc,
                   lgChanges, lgLast>>

\* StopAll: ScannerManager.Stop; a session inside tryConnect or disconnect
\* still runs its callback, the others end without one
ManagerStop ==
    /\ brPhase = "run"
    /\ brPhase' = "stop1"
    /\ sess' = [id \in ScannerIds |->
                  IF sess[id] \in {"opened", "closing"} THEN sess[id] ELSE "off"]
    /\ UNCHANGED <<pc, ctxDone, device, deviceInfo, connected, local, tokenRet, rpc, rdev,
                   rdata, dataChan, errorChan, buffer, sinceActivity, bufSrc,
                   terminationChar, stopPc, stopCalls, hw, hwInfo, openHandles, nextHandle,
                   goneHandles, nReads, broker, haKnown, events, smConfigs, smScanners,
                   smStopCh, smSess, smPc, smIdx, smConnected, smDisconnected, smResult,
                   smStopCalls, smPanicked, smOpenable, smProbed, transport, cConnected,
                   onConnectSet, haScanners, haConnected, retBridge, retEntityConfig,
                   retAvail, retConfig, lastSet, seenConnect, mapOp, mapAcc, diagSummary,
                   diagConn, wire, pubOp, pubId, pubRet, pubCalls, svPc, svIdx, svLog,
                   svConnected, svRet, clPc, clConn, clRan, clPending, hid, hidTerm,
                   hidPrev, cliPc, cliSigCh, cliHandler, cliShutdownCh, cliStops,
                   cliSignals, cwr, sel, lgPc, lgDevice, lgStopCh, lgErrors, lgCheckers,
                   lgLoops, lgHw, lgMutex, lgCallback, lgStopPc, lgChanges, lgLast>>

\* StopAll: Integration.Stop
IntegrationStop ==
    /\ brPhase = "stop1"
    /\ brPhase' = "stop2"
    /\ IF IsConnected
       THEN /\ retAvail' = [id \in ScannerIds |->
                              IF id \in haScanners THEN "offline" ELSE retAvail[id]]
            /\ retBridge' = "offline"
       ELSE UNCHANGED <<retAvail, retBridge>>
    /\ UNCHANGED <<pc, ctxDone, device, deviceInfo, connected, local, tokenRet, rpc, rdev,
                   rdata, dataChan, errorChan, buffer, sinceActivity, bufSrc,
                   terminationChar, stopPc, stopCalls, hw, hwInfo, openHandles, nextHandle,
                   goneHandles, nReads, broker, haKnown, events, smConfigs, smScanners,
                   smStopCh, smSess, smPc, smIdx, smConnected, smDisconnected, smResult,
                   smStopCalls, smPanicked, smOpenable, smProbed, transport, cConnected,
                   onConnectSet, haScanners, haConnected, sess, retEntityConfig, retConfig,
                   lastSet, seenConnect, mapOp, mapAcc, diagSummary, diagConn, wire, pubOp,
                   pubId, pubRet, pubCalls, svPc, svIdx, svLog, svConnected, svRet, clPc,
                   clConn, clRan, clPending, hid, hidTerm, hidPrev, cliPc, cliSigCh,
                   cliHandler, cliShutdownCh, cliStops, cliSignals, cwr, sel, lgPc,
                   lgDevice, lgStopCh, lgErrors, lgCheckers, lgLoops, lgHw, lgMutex,
                   lgCallback, lgStopPc, lgChanges, lgLast>>

\* Client.Disconnect: a graceful DISCONNECT, the broker discards the will
Disconnect ==
    /\ transport' = "down"
    /\ cConnected' = FALSE

\* StopAll: Client.Stop
mqttStop ==
    /\ brPhase = "stop2"
    /\ brPhase' = "stop3"
    /\ Disconnect
    /\ UNCHANGED <<pc, ctxDone, device, deviceInfo, connected, local, tokenRet, rpc, rdev,
                   rdata, dataChan, errorChan, buffer, sinceActivity, bufSrc,
                   terminationChar, stopPc, stopCalls, hw, hwInfo, openHandles, nextHandle,
                   goneHandles, nReads, broker, haKnown, events, smConfigs, smScanners,
                   smStopCh, smSess, smPc, smIdx, smConnected, smDisconnected, smResult,
                   smStopCalls, smPanicked, smOpenable, smProbed, onConnectSet, haScanners,
                   haConnected, sess, retBridge, retEntityConfig, retAvail, retConfig,
                   lastSet, seenConnect, mapOp, mapAcc, diagSummary, diagConn, wire, pubOp,
                   pubId, pubRet, pubCalls, svPc, svIdx, svLog, svConnected, svRet, clPc,
                   clConn, clRan, clPending, hid, hidTerm, hidPrev, cliPc, cliSigCh,
                   cliHandler, cliShutdownCh, cliStops, cliSignals, cwr, sel, lgPc,
                   lgDevice, lgStopCh, lgErrors, lgCheckers, lgLoops, lgHw, lgMutex,
                   lgCallback, lgStopPc, lgChanges, lgLast>>

\* StopAll: the extra mqttClient.Disconnect()
mqttDisconnect ==
    /\ brPhase = "stop3"
    /\ brPhase' = "stopped"
    /\ Disconnect
    /\ UNCHANGED <<pc, ctxDone, device, deviceInfo, connected, local, tokenRet, rpc, rdev,
                   rdata, dataChan, errorChan, buffer, sinceActivity, bufSrc,
                   terminationChar, stopPc, stopCalls, hw, hwInfo, openHandles, nextHandle,
                   goneHandles, nReads, broker, haKnown, events, smConfigs, smScanners,
                   smStopCh, smSess, smPc, smIdx, smConnected, smDisconnected, smResult,
                   smStopCalls, smPanicked, smOpenable, smProbed, onConnectSet, haScanners,
                   haConnected, sess, retBridge, retEntityConfig, retAvail, retConfig,
                   lastSet, seenConnect, mapOp, mapAcc, diagSummary, diagConn, wire, pubOp,
                   pubId, pubRet, pubCalls, svPc, svIdx, svLog, svConnected, svRet, clPc,
                   clConn, clRan, clPending, hid, hidTerm, hidPrev, cliPc, cliSigCh,
                   cliHandler, cliShutdownCh, cliStops, cliSignals, cwr, sel, lgPc,
                   lgDevice, lgStopCh, lgErrors, lgCheckers, lgLoops, lgHw, lgMutex,
                   lgCallback, lgStopPc, lgChanges, lgLast>>

\* the process exits in any other way: the broker publishes the will when
\* it loses a connection that was up
crash ==
    /\ ClientAlive
    /\ brPhase' = "crashed"
    /\ transport' = "down"
    /\ cConnected' = FALSE
    /\ retBridge' = IF transport = "up" THEN "offline" ELSE retBridge
    /\ sess' = [id \in ScannerIds |-> "off"]
    /\ UNCHANGED <<pc, ctxDone, device, deviceInfo, connected, local, tokenRet, rpc, rdev,
                   rdata, dataChan, errorChan, buffer, sinceActivity, bufSrc,
                   terminationChar, stopPc, stopCalls, hw, hwInfo, openHandles, nextHandle,
                   goneHandles, nReads, broker, haKnown, events, smConfigs, smScanners,
                   smStopCh, smSess, smPc, smIdx, smConnected, smDisconnected, smResult,
                   smStopCalls, smPanicked, smOpenable, smProbed, onConnectSet, haScanners,
                   haConnected, retEntityConfig, retAvail, retConfig, lastSet, seenConnect,
                   mapOp, mapAcc, diagSummary, diagConn, wire, pubOp, pubId, pubRet,
                   pubCalls, svPc, svIdx, svLog, svConnected, svRet, clPc, clConn, clRan,
                   clPending, hid, hidTerm, hidPrev, cliPc, cliSigCh, cliHandler,
                   cliShutdownCh, cliStops, cliSignals, cwr, sel, lgPc, lgDevice, lgStopCh,
                   lgErrors, lgCheckers, lgLoops, lgHw, lgMutex, lgCallback, lgStopPc,
                   lgChanges, lgLast>>

NextBridge ==
    \/ mqttStart \/ IntegrationStart \/ ManagerStart \/ connectionLost
    \/ reconnect \/ ManagerStop \/ IntegrationStop \/ mqttStop
    \/ mqttDisconnect \/ crash
    \/ \E id \in ScannerIds : sessOpen(id)
    \/ \E id \in ScannerIds : onConnected(id)
    \/ \E id \in ScannerIds : sessReadError(id)
    \/ \E id \in ScannerIds : onDisconnected(id)

SpecBridge == InitBridge /\ [][NextBridge]_vars

\* ==================================== Client.Publish, PublishBarcode calls
\* Client.Publish that hands the message to paho whatever the connection
ClientPublishQueued(w, msg) == [ret |-> "nil", wire |-> Append(w, msg)]

\* Client.Publish(topic, payload, retain) on the messages handed to paho
ClientPublish(w, msg) ==
    IF ~IsConnected
    THEN [ret |-> "error", wire |-> w]
    ELSE [ret |-> "nil", wire |-> Append(w, msg)]

\* Integration.publishScannerHealthState(id): state, then attributes
publishScannerHealthState(w, id) ==
    LET p == ClientPublish(w, <<"health", id, FALSE>>)
    IN  IF p.ret = "error" THEN p
        ELSE ClientPublish(p.wire, <<"health_attributes", id, FALSE>>)

\* PublishBarcode without the lookup in integration.scanners
PublishBarcodeUnchecked(id) ==
    IF ~IsConnected THEN [ret |-> "error", wire |-> wire]
    ELSE [ret |-> "nil",
          wire |-> wire \o <<(<<"state", id, FALSE>>), (<<"attributes", id, FALSE>>)>>]

\* Integration.PublishBarcode(id, barcode)
PublishBarcodeResult(id) ==
    IF id \notin haScanners THEN [ret |-> "error", wire |-> wire]
    ELSE IF ~IsConnected THEN [ret |-> "error", wire |-> wire]
    ELSE LET p1 == ClientPublish(wire, <<"state", id, FALSE>>)
             p2 == ClientPublish(p1.wire, <<"attributes", id, FALSE>>)
         IN  IF p1.ret = "error" THEN p1
             ELSE IF p2.ret = "error" THEN p2
             ELSE [ret |-> "nil", wire |-> publishScannerHealthState(p2.wire, id).wire]

\* some caller publishes on a topic of its own
Publish(retain) ==
    /\ brPhase # "crashed"
    /\ pubCalls < MaxPublishes
    /\ LET p == ClientPublish(wire, <<"topic", 0, retain>>)
       IN  /\ wire' = p.wire
           /\ pubRet' = p.ret
    /\ pubOp' = IF retain THEN "PublishRetained" ELSE "Publish"
    /\ pubId' = 0
    /\ pubCalls' = pubCalls + 1
    /\ UNCHANGED <<pc, ctxDone, device, deviceInfo, connected, local, tokenRet, rpc, rdev,
                   rdata, dataChan, errorChan, buffer, sinceActivity, bufSrc,
                   terminationChar, stopPc, stopCalls, hw, hwInfo, openHandles, nextHandle,
                   goneHandles, nReads, broker, haKnown, events, smConfigs, smScanners,
                   smStopCh, smSess, smPc, smIdx, smConnected, smDisconnected, smResult,
                   smStopCalls, smPanicked, smOpenable, smProbed, brPhase, transport,
                   cConnected, onConnectSet, haScanners, haConnected, sess, retBridge,
                   retEntityConfig, retAvail, retConfig, lastSet, seenConnect, mapOp,
                   mapAcc, diagSummary, diagConn, svPc, svIdx, svLog, svConnected, svRet,
                   clPc, clConn, clRan, clPending, hid, hidTerm, hidPrev, cliPc, cliSigCh,
                   cliHandler, cliShutdownCh, cliStops, cliSignals, cwr, sel, lgPc,
                   lgDevice, lgStopCh, lgErrors, lgCheckers, lgLoops, lgHw, lgMutex,
                   lgCallback, lgStopPc, lgChanges, lgLast>>

\* createMultiBarcodeHandler: a scan of scanner id reaches PublishBarcode
PublishBarcode(id) ==
    /\ brPhase # "crashed"
    /\ pubCalls < MaxPublishes
    /\ LET p == PublishBarcodeResult(id)
       IN  /\ wire' = p.wire
           /\ pubRet' = p.ret
    /\ pubOp' = "PublishBarcode"
    /\ pubId' = id
    /\ pubCalls' = pubCalls + 1
    /\ UNCHANGED <<pc, ctxDone, device, deviceInfo, connected, local, tokenRet, rpc, rdev,
                   rdata, dataChan, errorChan, buffer, sinceActivity, bufSrc,
                   terminationChar, stopPc, stopCalls, hw, hwInfo, openHandles, nextHandle,
                   goneHandles, nReads, broker, haKnown, events, smConfigs, smScanners,
                   smStopCh, smSess, smPc, smIdx, smConnected, smDisconnected, smResult,
                   smStopCalls, smPanicked, smOpenable, smProbed, brPhase, transport,
                   cConnected, onConnectSet, haScanners, haConnected, sess, retBridge,
                   retEntityConfig, retAvail, retConfig, lastSet, seenConnect, mapOp,
                   mapAcc, diagSummary, diagConn, svPc, svIdx, svLog, svConnected, svRet,
                   clPc, clConn, clRan, clPending, hid, hidTerm, hidPrev, cliPc, cliSigCh,
                   cliHandler, cliShutdownCh, cliStops, cliSignals, cwr, sel, lgPc,
                   lgDevice, lgStopCh, lgErrors, lgCheckers, lgLoops, lgHw, lgMutex,
                   lgCallback, lgStopPc, lgChanges, lgLast>>

NextPublish ==
    \/ NextBridge
    \/ \E retain \in BOOLEAN : Publish(retain)
    \/ \E id \in ScannerIds : PublishBarcode(id)

SpecPublish == InitBridge /\ [][NextPublish]_vars

\* ================================================ ServiceManager: any services
\* sm.order after Application.Initialize
order == <<"mqtt", "homeassistant", "scanner">>

Results == {"nil", "error"}

\* StartAll: mqttClient.Connect(); an error is returned at once
Connect ==
    /\ svPc = "new"
    /\ \E r \in Results :
         /\ svLog' = Append(svLog, <<"mqtt", "Connect", r>>)
         /\ svPc' = IF r = "nil" THEN "wait" ELSE "startFailed"
         /\ svRet' = IF r = "nil" THEN svRet ELSE "error"
    /\ UNCHANGED <<pc, ctxDone, device, deviceInfo, connected, local, tokenRet, rpc, rdev,
                   rdata, dataChan, errorChan, buffer, sinceActivity, bufSrc,
                   terminationChar, stopPc, stopCalls, hw, hwInfo, openHandles, nextHandle,
                   goneHandles, nReads, broker, haKnown, events, smConfigs, smScanners,
                   smStopCh, smSess, smPc, smIdx, smConnected, smDisconnected, smResult,
                   smStopCalls, smPanicked, smOpenable, smProbed, brPhase, transport,
                   cConnected, onConnectSet, haScanners, haConnected, sess, retBridge,
                   retEntityConfig, retAvail, retConfig, lastSet, seenConnect, mapOp,
                   mapAcc, diagSummary, diagConn, wire, pubOp, pubId, pubRet, pubCalls,
                   svIdx, svConnected, clPc, clConn, clRan, clPending, hid, hidTerm,
                   hidPrev, cliPc, cliSigCh, cliHandler, cliShutdownCh, cliStops,
                   cliSignals, cwr, sel, lgPc, lgDevice, lgStopCh, lgErrors, lgCheckers,
                   lgLoops, lgHw, lgMutex, lgCallback, lgStopPc, lgChanges, lgLast>>

\* Client.handleConnect / handleDisconnect / Disconnect move the flag
setConnected ==
    /\ svPc \notin {"new", "startFailed", "stopped"}
    /\ svConnected' = ~svConnected
    /\ UNCHANGED <<pc, ctxDone, device, deviceInfo, connected, local, tokenRet, rpc, rdev,
                   rdata, dataChan, errorChan, buffer, sinceActivity, bufSrc,
                   terminationChar, stopPc, stopCalls, hw, hwInfo, openHandles, nextHandle,
                   goneHandles, nReads, broker, haKnown, events, smConfigs, smScanners,
                   smStopCh, smSess, smPc, smIdx, smConnected, smDisconnected, smResult,
                   smStopCalls, smPanicked, smOpenable, smProbed, brPhase, transport,
                   cConnected, onConnectSet, haScanners, haConnected, sess, retBridge,
                   retEntityConfig, retAvail, retConfig, lastSet, seenConnect, mapOp,
                   mapAcc, diagSummary, diagConn, wire, pubOp, pubId, pubRet, pubCalls,
                   svPc, svIdx, svLog, svRet, clPc, clConn, clRan, clPending, hid, hidTerm,
                   hidPrev, cliPc, cliSigCh, cliHandler, cliShutdownCh, cliStops,
                   cliSignals, cwr, sel, lgPc, lgDevice, lgStopCh, lgErrors, lgCheckers,
                   lgLoops, lgHw, lgMutex, lgCallback, lgStopPc, lgChanges, lgLast>>

\* WaitForConnection that never reports a timeout
WaitForConnectionAlways == "nil"

\* Client.WaitForConnection: nil once a poll sees IsConnected(), an error
\* when the deadline passes first
WaitForConnection == IF svConnected THEN "nil" ELSE "error"

\* StartAll: mqttClient.WaitForConnection(10s)
mqttWait ==
    /\ svPc = "wait"
    /\ svLog' = Append(svLog, <<"mqtt", "WaitForConnection", WaitForConnection>>)
    /\ IF WaitForConnection = "nil"
       THEN svPc' = "start" /\ svIdx' = 1 /\ UNCHANGED svRet
       ELSE svPc' = "startFailed" /\ svRet' = "error" /\ UNCHANGED svIdx
    /\ UNCHANGED <<pc, ctxDone, device, deviceInfo, connected, local, tokenRet, rpc, rdev,
                   rdata, dataChan, errorChan, buffer, sinceActivity, bufSrc,
                   terminationChar, stopPc, stopCalls, hw, hwInfo, openHandles, nextHandle,
                   goneHandles, nReads, broker, haKnown, events, smConfigs, smScanners,
                   smStopCh, smSess, smPc, smIdx, smConnected, smDisconnected, smResult,
                   smStopCalls, smPanicked, smOpenable, smProbed, brPhase, transport,
                   cConnected, onConnectSet, haScanners, haConnected, sess, retBridge,
                   retEntityConfig, retAvail, retConfig, lastSet, seenConnect, mapOp,
                   mapAcc, diagSummary, diagConn, wire, pubOp, pubId, pubRet, pubCalls,
                   svConnected, clPc, clConn, clRan, clPending, hid, hidTerm, hidPrev,
                   cliPc, cliSigCh, cliHandler, cliShutdownCh, cliStops, cliSignals, cwr,
                   sel, lgPc, lgDevice, lgStopCh, lgErrors, lgCheckers, lgLoops, lgHw,
                   lgMutex, lgCallback, lgStopPc, lgChanges, lgLast>>

\* StartAll: one turn of the loop over sm.order
StartAll ==
    /\ svPc = "start"
    /\ IF svIdx > Len(order)
       THEN svPc' = "started" /\ svRet' = "nil" /\ UNCHANGED <<svLog, svIdx>>
       ELSE IF order[svIdx] = "mqtt"
       THEN svIdx' = svIdx + 1 /\ UNCHANGED <<svLog, svPc, svRet>>
       ELSE \E r \in Results :
              /\ svLog' = Append(svLog, <<order[svIdx], "Start", r>>)
              /\ IF r = "nil"
                 THEN svIdx' = svIdx + 1 /\ UNCHANGED <<svPc, svRet>>
                 ELSE svPc' = "startFailed" /\ svRet' = "error" /\ UNCHANGED svIdx
    /\ UNCHANGED <<pc, ctxDone, device, deviceInfo, connected, local, tokenRet, rpc, rdev,
                   rdata, dataChan, errorChan, buffer, sinceActivity, bufSrc,
                   terminationChar, stopPc, stopCalls, hw, hwInfo, openHandles, nextHandle,
                   goneHandles, nReads, broker, haKnown, events, smConfigs, smScanners,
                   smStopCh, smSess, smPc, smIdx, smConnected, smDisconnected, smResult,
                   smStopCalls, smPanicked, smOpenable, smProbed, brPhase, transport,
                   cConnected, onConnectSet, haScanners, haConnected, sess, retBridge,
                   retEntityConfig, retAvail, retConfig, lastSet, seenConnect, mapOp,
                   mapAcc, diagSummary, diagConn, wire, pubOp, pubId, pubRet, pubCalls,
                   svConnected, clPc, clConn, clRan, clPending, hid, hidTerm, hidPrev,
                   cliPc, cliSigCh, cliHandler, cliShutdownCh, cliStops, cliSignals, cwr,
                   sel, lgPc, lgDevice, lgStopCh, lgErrors, lgCheckers, lgLoops, lgHw,
                   lgMutex, lgCallback, lgStopPc, lgChanges, lgLast>>

\* a StopAll loop that ends at the first Stop error
StopAbort(i, r) == IF r = "error" THEN 0 ELSE i - 1

\* StopAll: the index after service i's Stop returned r
StopContinue(i, r) == i - 1

\* StopAll: one turn of the reverse loop, then mqttClient.Disconnect()
StopAll ==
    /\ svPc \in {"started", "startFailed", "stop"}
    /\ IF svPc # "stop"
       THEN svPc' = "stop" /\ svIdx' = Len(order) /\ UNCHANGED <<svLog, svConnected>>
       ELSE IF svIdx >= 1
       THEN \E r \in Results :
              /\ svLog' = Append(svLog, <<order[svIdx], "Stop", r>>)
              /\ svIdx' = StopContinue(svIdx, r)
              /\ UNCHANGED <<svPc, svConnected>>
       ELSE /\ svLog' = Append(svLog, <<"mqtt", "Disconnect", "nil">>)
            /\ svConnected' = FALSE
            /\ svPc' = "stopped"
            /\ UNCHANGED svIdx
    /\ UNCHANGED <<pc, ctxDone, device, deviceInfo, connected, local, tokenRet, rpc, rdev,
                   rdata, dataChan, errorChan, buffer, sinceActivity, bufSrc,
                   terminationChar, stopPc, stopCalls, hw, hwInfo, openHandles, nextHandle,
                   goneHandles, nReads, broker, haKnown, events, smConfigs, smScanners,
                   smStopCh, smSess, smPc, smIdx, smConnected, smDisconnected, smResult,
                   smStopCalls, smPanicked, smOpenable, smProbed, brPhase, transport,
                   cConnected, onConnectSet, haScanners, haConnected, sess, retBridge,
                   retEntityConfig, retAvail, retConfig, lastSet, seenConnect, mapOp,
                   mapAcc, diagSummary, diagConn, wire, pubOp, pubId, pubRet, pubCalls,
                   svRet, clPc, clConn, clRan, clPending, hid, hidTerm, hidPrev, cliPc,
                   cliSigCh, cliHandler, cliShutdownCh, cliStops, cliSignals, cwr, sel,
                   lgPc, lgDevice, lgStopCh, lgErrors, lgCheckers, lgLoops, lgHw, lgMutex,
                   lgCallback, lgStopPc, lgChanges, lgLast>>

NextServices == Connect \/ setConnected \/ mqttWait \/ StartAll \/ StopAll

SpecServices == InitBridge /\ [][NextServices]_vars

\* ============================== Client: the flag and paho's callbacks
\* paho completes a connection (Connect, or its automatic reconnect) and
\* schedules the OnConnect handler
clConnect ==
    /\ clPc \in {"new", "started"}
    /\ transport = "down"
    /\ clConn < MaxConnections
    /\ clPc' = "started"
    /\ transport' = "up"
    /\ clConn' = clConn + 1
    /\ clPending' = clPending \cup {<<"handleConnect", clConn + 1>>}
    /\ UNCHANGED <<pc, ctxDone, device, deviceInfo, connected, local, tokenRet, rpc, rdev,
                   rdata, dataChan, errorChan, buffer, sinceActivity, bufSrc,
                   terminationChar, stopPc, stopCalls, hw, hwInfo, openHandles, nextHandle,
                   goneHandles, nReads, broker, haKnown, events, smConfigs, smScanners,
                   smStopCh, smSess, smPc, smIdx, smConnected, smDisconnected, smResult,
                   smStopCalls, smPanicked, smOpenable, smProbed, brPhase, cConnected,
                   onConnectSet, haScanners, haConnected, sess, retBridge, retEntityConfig,
                   retAvail, retConfig, lastSet, seenConnect, mapOp, mapAcc, diagSummary,
                   diagConn, wire, pubOp, pubId, pubRet, pubCalls, svPc, svIdx, svLog,
                   svConnected, svRet, clRan, hid, hidTerm, hidPrev, cliPc, cliSigCh,
                   cliHandler, cliShutdownCh, cliStops, cliSignals, cwr, sel, lgPc,
                   lgDevice, lgStopCh, lgErrors, lgCheckers, lgLoops, lgHw, lgMutex,
                   lgCallback, lgStopPc, lgChanges, lgLast>>

\* the connection is lost: paho schedules the ConnectionLost handler
clConnectionLost ==
    /\ clPc = "started"
    /\ transport = "up"
    /\ transport' = "down"
    /\ clPending' = clPending \cup {<<"handleDisconnect", clConn>>}
    /\ UNCHANGED <<pc, ctxDone, device, deviceInfo, connected, local, tokenRet, rpc, rdev,
                   rdata, dataChan, errorChan, buffer, sinceActivity, bufSrc,
                   terminationChar, stopPc, stopCalls, hw, hwInfo, openHandles, nextHandle,
                   goneHandles, nReads, broker, haKnown, events, smConfigs, smScanners,
                   smStopCh, smSess, smPc, smIdx, smConnected, smDisconnected, smResult,
                   smStopCalls, smPanicked, smOpenable, smProbed, brPhase, cConnected,
                   onConnectSet, haScanners, haConnected, sess, retBridge, retEntityConfig,
                   retAvail, retConfig, lastSet, seenConnect, mapOp, mapAcc, diagSummary,
                   diagConn, wire, pubOp, pubId, pubRet, pubCalls, svPc, svIdx, svLog,
                   svConnected, svRet, clPc, clConn, clRan, hid, hidTerm, hidPrev, cliPc,
                   cliSigCh, cliHandler, cliShutdownCh, cliStops, cliSignals, cwr, sel,
                   lgPc, lgDevice, lgStopCh, lgErrors, lgCheckers, lgLoops, lgHw, lgMutex,
                   lgCallback, lgStopPc, lgChanges, lgLast>>

\* Client.handleConnect, scheduled for connection n, runs: setConnected(true)
clHandleConnect(n) ==
    /\ <<"handleConnect", n>> \in clPending
    /\ clPending' = clPending \ {<<"handleConnect", n>>}
    /\ cConnected' = TRUE
    /\ clRan' = n
    /\ UNCHANGED <<pc, ctxDone, device, deviceInfo, connected, local, tokenRet, rpc, rdev,
                   rdata, dataChan, errorChan, buffer, sinceActivity, bufSrc,
                   terminationChar, stopPc, stopCalls, hw, hwInfo, openHandles, nextHandle,
                   goneHandles, nReads, broker, haKnown, events, smConfigs, smScanners,
                   smStopCh, smSess, smPc, smIdx, smConnected, smDisconnected, smResult,
                   smStopCalls, smPanicked, smOpenable, smProbed, brPhase, transport,
                   onConnectSet, haScanners, haConnected, sess, retBridge, retEntityConfig,
                   retAvail, retConfig, lastSet, seenConnect, mapOp, mapAcc, diagSummary,
                   diagConn, wire, pubOp, pubId, pubRet, pubCalls, svPc, svIdx, svLog,
                   svConnected, svRet, clPc, clConn, hid, hidTerm, hidPrev, cliPc,
                   cliSigCh, cliHandler, cliShutdownCh, cliStops, cliSignals, cwr, sel,
                   lgPc, lgDevice, lgStopCh, lgErrors, lgCheckers, lgLoops, lgHw, lgMutex,
                   lgCallback, lgStopPc, lgChanges, lgLast>>

\* Client.handleDisconnect, scheduled for connection n, runs: setConnected(false)
clHandleDisconnect(n) ==
    /\ <<"handleDisconnect", n>> \in clPending
    /\ clPending' = clPending \ {<<"handleDisconnect", n>>}
    /\ cConnected' = FALSE
    /\ UNCHANGED <<pc, ctxDone, device, deviceInfo, connected, local, tokenRet, rpc, rdev,
                   rdata, dataChan, errorChan, buffer, sinceActivity, bufSrc,
                   terminationChar, stopPc, stopCalls, hw, hwInfo, openHandles, nextHandle,
                   goneHandles, nReads, broker, haKnown, events, smConfigs, smScanners,
                   smStopCh, smSess, smPc, smIdx, smConnected, smDisconnected, smResult,
                   smStopCalls, smPanicked, smOpenable, smProbed, brPhase, transport,
                   onConnectSet, haScanners, haConnected, sess, retBridge, retEntityConfig,
                   retAvail, retConfig, lastSet, seenConnect, mapOp, mapAcc, diagSummary,
                   diagConn, wire, pubOp, pubId, pubRet, pubCalls, svPc, svIdx, svLog,
                   svConnected, svRet, clPc, clConn, clRan, hid, hidTerm, hidPrev, cliPc,
                   cliSigCh, cliHandler, cliShutdownCh, cliStops, cliSignals, cwr, sel,
                   lgPc, lgDevice, lgStopCh, lgErrors, lgCheckers, lgLoops, lgHw, lgMutex,
                   lgCallback, lgStopPc, lgChanges, lgLast>>

\* Client.Disconnect: paho's Disconnect, setConnected(false)
clDisconnect ==
    /\ clPc = "started"
    /\ clPc' = "disconnected"
    /\ Disconnect
    /\ UNCHANGED <<pc, ctxDone, device, deviceInfo, connected, local, tokenRet, rpc, rdev,
                   rdata, dataChan, errorChan, buffer, sinceActivity, bufSrc,
                   terminationChar, stopPc, stopCalls, hw, hwInfo, openHandles, nextHandle,
                   goneHandles, nReads, broker, haKnown, events, smConfigs, smScanners,
                   smStopCh, smSess, smPc, smIdx, smConnected, smDisconnected, smResult,
                   smStopCalls, smPanicked, smOpenable, smProbed, brPhase, onConnectSet,
                   haScanners, haConnected, sess, retBridge, retEntityConfig, retAvail,
                   retConfig, lastSet, seenConnect, mapOp, mapAcc, diagSummary, diagConn,
                   wire, pubOp, pubId, pubRet, pubCalls, svPc, svIdx, svLog, svConnected,
                   svRet, clConn, clRan, clPending, hid, hidTerm, hidPrev, cliPc, cliSigCh,
                   cliHandler, cliShutdownCh, cliStops, cliSignals, cwr, sel, lgPc,
                   lgDevice, lgStopCh, lgErrors, lgCheckers, lgLoops, lgHw, lgMutex,
                   lgCallback, lgStopPc, lgChanges, lgLast>>

NextClient ==
    \/ clConnect \/ clConnectionLost \/ clDisconnect
    \/ \E n \in 1..MaxConnections : clHandleConnect(n)
    \/ \E n \in 1..MaxConnections : clHandleDisconnect(n)

SpecClient == InitBridge /\ [][NextClient]_vars

\* ================================================ Client.ConnectWithRetry
\* what one connect attempt may come to: the token completes without error
\* within DefaultConnectTimeout, it does not complete in time, or it
\* completes with an error
ConnectOutcomes == {"ok", "timeout", "error"}

\* a caller enters ConnectWithRetry(maxRetries, retryDelay)
cwrCall ==
    /\ cwr.pc = "idle"
    /\ \E m \in 0..MaxRetries, d \in 1..MaxDelay :
          cwr' = [cwr EXCEPT !.pc = "loop", !.maxRetries = m, !.retryDelay = d,
                             !.delay0 = d]
    /\ UNCHANGED <<pc, ctxDone, device, deviceInfo, connected, local, tokenRet, rpc, rdev,
                   rdata, dataChan, errorChan, buffer, sinceActivity, bufSrc,
                   terminationChar, stopPc, stopCalls, hw, hwInfo, openHandles, nextHandle,
                   goneHandles, nReads, broker, haKnown, events, smConfigs, smScanners,
                   smStopCh, smSess, smPc, smIdx, smConnected, smDisconnected, smResult,
                   smStopCalls, smPanicked, smOpenable, smProbed, brPhase, transport,
                   cConnected, onConnectSet, haScanners, haConnected, sess, retBridge,
                   retEntityConfig, retAvail, retConfig, lastSet, seenConnect, mapOp,
                   mapAcc, diagSummary, diagConn, wire, pubOp, pubId, pubRet, pubCalls,
                   svPc, svIdx, svLog, svConnected, svRet, clPc, clConn, clRan, clPending,
                   hid, hidTerm, hidPrev, cliPc, cliSigCh, cliHandler, cliShutdownCh,
                   cliStops, cliSignals, sel, lgPc, lgDevice, lgStopCh, lgErrors,
                   lgCheckers, lgLoops, lgHw, lgMutex, lgCallback, lgStopPc, lgChanges,
                   lgLast>>

\* one turn of the loop that sleeps the same retryDelay before every retry
ConnectWithRetryFixedDelay ==
    /\ cwr.pc = "loop"
    /\ IF cwr.attempt > cwr.maxRetries
       THEN cwr' = [cwr EXCEPT !.pc = "done", !.ret = "error"]
       ELSE \E o \in ConnectOutcomes :
              LET slept == IF cwr.attempt > 0
                           THEN Append(cwr.sleeps, cwr.retryDelay) ELSE cwr.sleeps
                  c == [cwr EXCEPT !.sleeps = slept,
                                   !.outcomes = Append(@, o)]
              IN  cwr' = IF o = "ok"
                         THEN [c EXCEPT !.pc = "done", !.ret = "nil"]
                         ELSE IF cwr.attempt = cwr.maxRetries
                         THEN [c EXCEPT !.pc = "done", !.ret = "error"]
                         ELSE [c EXCEPT !.attempt = @ + 1]
    /\ UNCHANGED <<pc, ctxDone, device, deviceInfo, connected, local, tokenRet, rpc, rdev,
                   rdata, dataChan, errorChan, buffer, sinceActivity, bufSrc,
                   terminationChar, stopPc, stopCalls, hw, hwInfo, openHandles, nextHandle,
                   goneHandles, nReads, broker, haKnown, events, smConfigs, smScanners,
                   smStopCh, smSess, smPc, smIdx, smConnected, smDisconnected, smResult,
                   smStopCalls, smPanicked, smOpenable, smProbed, brPhase, transport,
                   cConnected, onConnectSet, haScanners, haConnected, sess, retBridge,
                   retEntityConfig, retAvail, retConfig, lastSet, seenConnect, mapOp,
                   mapAcc, diagSummary, diagConn, wire, pubOp, pubId, pubRet, pubCalls,
                   svPc, svIdx, svLog, svConnected, svRet, clPc, clConn, clRan, clPending,
                   hid, hidTerm, hidPrev, cliPc, cliSigCh, cliHandler, cliShutdownCh,
                   cliStops, cliSignals, sel, lgPc, lgDevice, lgStopCh, lgErrors,
                   lgCheckers, lgLoops, lgHw, lgMutex, lgCallback, lgStopPc, lgChanges,
                   lgLast>>

\* one turn of the loop of ConnectWithRetry: the sleep and the doubling
\* before a retry, client.Connect(), token.WaitTimeout, token.Error()
ConnectWithRetry ==
    /\ cwr.pc = "loop"
    /\ IF cwr.attempt > cwr.maxRetries
       THEN cwr' = [cwr EXCEPT !.pc = "done", !.ret = "error"]
       ELSE \E o \in ConnectOutcomes :
              LET slept == IF cwr.attempt > 0
                           THEN Append(cwr.sleeps, cwr.retryDelay) ELSE cwr.sleeps
                  delay == IF cwr.attempt > 0
                           THEN cwr.retryDelay * 2 ELSE cwr.retryDelay
                  c == [cwr EXCEPT !.sleeps = slept, !.retryDelay = delay,
                                   !.outcomes = Append(@, o)]
              IN  cwr' = IF o = "ok"
                         THEN [c EXCEPT !.pc = "done", !.ret = "nil"]
                         ELSE IF cwr.attempt = cwr.maxRetries
                         THEN [c EXCEPT !.pc = "done", !.ret = "error"]
                         ELSE [c EXCEPT !.attempt = @ + 1]
    /\ UNCHANGED <<pc, ctxDone, device, deviceInfo, connected, local, tokenRet, rpc, rdev,
                   rdata, dataChan, errorChan, buffer, sinceActivity, bufSrc,
                   terminationChar, stopPc, stopCalls, hw, hwInfo, openHandles, nextHandle,
                   goneHandles, nReads, broker, haKnown, events, smConfigs, smScanners,
                   smStopCh, smSess, smPc, smIdx, smConnected, smDisconnected, smResult,
                   smStopCalls, smPanicked, smOpenable, smProbed, brPhase, transport,
                   cConnected, onConnectSet, haScanners, haConnected, sess, retBridge,
                   retEntityConfig, retAvail, retConfig, lastSet, seenConnect, mapOp,
                   mapAcc, diagSummary, diagConn, wire, pubOp, pubId, pubRet, pubCalls,
                   svPc, svIdx, svLog, svConnected, svRet, clPc, clConn, clRan, clPending,
                   hid, hidTerm, hidPrev, cliPc, cliSigCh, cliHandler, cliShutdownCh,
                   cliStops, cliSignals, sel, lgPc, lgDevice, lgStopCh, lgErrors,
                   lgCheckers, lgLoops, lgHw, lgMutex, lgCallback, lgStopPc, lgChanges,
                   lgLast>>

NextRetry == cwrCall \/ ConnectWithRetry

SpecRetry == InitBridge /\ [][NextRetry]_vars
\* ============================== concurrent access to integration.scanners
InitMapAccess ==
    /\ IdleMapTasks
    /\ NewHIDProcessor("enter")
    /\ NewBridge
    /\ IdleSession
    /\ IdleManager
    /\ IdleLegacy

\* the access each Integration method makes to integration.scanners; no
\* method takes a lock, the Integration has no mutex
MapAccessOf(op) ==
    CASE op = "SetScannerDeviceInfo" -> "write"
      [] op = "SetScannerConnected"  -> "read"
      [] op = "PublishBarcode"       -> "read"
      [] op = "handleConnect"        -> "read"
      [] op = "Stop"                 -> "read"

\* the methods a task calls when it is idle
MapOpsOf(t) ==
    CASE t[1] = "session" -> {"SetScannerDeviceInfo", "SetScannerConnected", "PublishBarcode"}
      [] t[1] = "connect" -> {"handleConnect"}
      [] t[1] = "stop"    -> {"Stop"}

\* a task enters an Integration method (a handler, handleConnect or Stop)
mapCall(t) ==
    /\ mapOp[t] = "idle"
    /\ \E op \in MapOpsOf(t) : mapOp' = [mapOp EXCEPT ![t] = op]
    /\ UNCHANGED <<pc, ctxDone, device, deviceInfo, connected, local, tokenRet, rpc, rdev,
                   rdata, dataChan, errorChan, buffer, sinceActivity, bufSrc,
                   terminationChar, stopPc, stopCalls, hw, hwInfo, openHandles, nextHandle,
                   goneHandles, nReads, broker, haKnown, events, smConfigs, smScanners,
                   smStopCh, smSess, smPc, smIdx, smConnected, smDisconnected, smResult,
                   smStopCalls, smPanicked, smOpenable, smProbed, brPhase, transport,
                   cConnected, onConnectSet, haScanners, haConnected, sess, retBridge,
                   retEntityConfig, retAvail, retConfig, lastSet, seenConnect, mapAcc,
                   diagSummary, diagConn, wire, pubOp, pubId, pubRet, pubCalls, svPc,
                   svIdx, svLog, svConnected, svRet, clPc, clConn, clRan, clPending, hid,
                   hidTerm, hidPrev, cliPc, cliSigCh, cliHandler, cliShutdownCh, cliStops,
                   cliSignals, cwr, sel, lgPc, lgDevice, lgStopCh, lgErrors, lgCheckers,
                   lgLoops, lgHw, lgMutex, lgCallback, lgStopPc, lgChanges, lgLast>>

\* the method reaches its map access: integration.scanners[id] = scanner,
\* integration.scanners[id], or range integration.scanners
mapAccessBegin(t) ==
    /\ mapOp[t] # "idle"
    /\ mapAcc[t] = "none"
    /\ mapAcc' = [mapAcc EXCEPT ![t] = MapAccessOf(mapOp[t])]
    /\ UNCHANGED <<pc, ctxDone, device, deviceInfo, connected, local, tokenRet, rpc, rdev,
                   rdata, dataChan, errorChan, buffer, sinceActivity, bufSrc,
                   terminationChar, stopPc, stopCalls, hw, hwInfo, openHandles, nextHandle,
                   goneHandles, nReads, broker, haKnown, events, smConfigs, smScanners,
                   smStopCh, smSess, smPc, smIdx, smConnected, smDisconnected, smResult,
                   smStopCalls, smPanicked, smOpenable, smProbed, brPhase, transport,
                   cConnected, onConnectSet, haScanners, haConnected, sess, retBridge,
                   retEntityConfig, retAvail, retConfig, lastSet, seenConnect, mapOp,
                   diagSummary, diagConn, wire, pubOp, pubId, pubRet, pubCalls, svPc,
                   svIdx, svLog, svConnected, svRet, clPc, clConn, clRan, clPending, hid,
                   hidTerm, hidPrev, cliPc, cliSigCh, cliHandler, cliShutdownCh, cliStops,
                   cliSignals, cwr, sel, lgPc, lgDevice, lgStopCh, lgErrors, lgCheckers,
                   lgLoops, lgHw, lgMutex, lgCallback, lgStopPc, lgChanges, lgLast>>

\* the access is over; SetScannerDeviceInfo has stored the scanner and the
\* connected handler goes on to SetScannerConnected
mapAccessEnd(t) ==
    /\ mapAcc[t] # "none"
    /\ mapAcc' = [mapAcc EXCEPT ![t] = "none"]
    /\ mapOp' = [mapOp EXCEPT ![t] =
                   IF @ = "SetScannerDeviceInfo" THEN "SetScannerConnected" ELSE "idle"]
    /\ haScanners' = IF mapOp[t] = "SetScannerDeviceInfo"
                     THEN haScanners \cup {t[2]} ELSE haScanners
    /\ UNCHANGED <<pc, ctxDone, device, deviceInfo, connected, local, tokenRet, rpc, rdev,
                   rdata, dataChan, errorChan, buffer, sinceActivity, bufSrc,
                   terminationChar, stopPc, stopCalls, hw, hwInfo, openHandles, nextHandle,
                   goneHandles, nReads, broker, haKnown, events, smConfigs, smScanners,
                   smStopCh, smSess, smPc, smIdx, smConnected, smDisconnected, smResult,
                   smStopCalls, smPanicked, smOpenable, smProbed, brPhase, transport,
                   cConnected, onConnectSet, haConnected, sess, retBridge, retEntityConfig,
                   retAvail, retConfig, lastSet, seenConnect, diagSummary, diagConn, wire,
                   pubOp, pubId, pubRet, pubCalls, svPc, svIdx, svLog, svConnected, svRet,
                   clPc, clConn, clRan, clPending, hid, hidTerm, hidPrev, cliPc, cliSigCh,
                   cliHandler, cliShutdownCh, cliStops, cliSignals, cwr, sel, lgPc,
                   lgDevice, lgStopCh, lgErrors, lgCheckers, lgLoops, lgHw, lgMutex,
                   lgCallback, lgStopPc, lgChanges, lgLast>>

NextMapAccess ==
    \/ \E t \in MapTasks : mapCall(t)
    \/ \E t \in MapTasks : mapAccessBegin(t)
    \/ \E t \in MapTasks : mapAccessEnd(t)

SpecMapAccess == InitMapAccess /\ [][NextMapAccess]_vars

\* C11: accesses to the Integration's ScannerDevice map are serialized: no
\* two tasks are inside an access to the map at the same time.
C11_MapAccessSerialized ==
    \A t, u \in MapTasks :
        mapAcc[t] # "none" /\ mapAcc[u] # "none" => t = u

\* ================================================== CLI.runApp and signals
\* an interrupt or terminate signal is sent to the process: signal.Notify
\* sends it to sigCh without blocking and drops it when sigCh is full
signalNotify(sig) ==
    /\ cliSignals < MaxSignals
    /\ cliSignals' = cliSignals + 1
    /\ cliSigCh' = IF Len(cliSigCh) < SigChanCap THEN Append(cliSigCh, sig) ELSE cliSigCh
    /\ UNCHANGED <<pc, ctxDone, device, deviceInfo, connected, local, tokenRet, rpc, rdev,
                   rdata, dataChan, errorChan, buffer, sinceActivity, bufSrc,
                   terminationChar, stopPc, stopCalls, hw, hwInfo, openHandles, nextHandle,
                   goneHandles, nReads, broker, haKnown, events, smConfigs, smScanners,
                   smStopCh, smSess, smPc, smIdx, smConnected, smDisconnected, smResult,
                   smStopCalls, smPanicked, smOpenable, smProbed, brPhase, transport,
                   cConnected, onConnectSet, haScanners, haConnected, sess, retBridge,
                   retEntityConfig, retAvail, retConfig, lastSet, seenConnect, mapOp,
                   mapAcc, diagSummary, diagConn, wire, pubOp, pubId, pubRet, pubCalls,
                   svPc, svIdx, svLog, svConnected, svRet, clPc, clConn, clRan, clPending,
                   hid, hidTerm, hidPrev, cliPc, cliHandler, cliShutdownCh, cliStops, cwr,
                   sel, lgPc, lgDevice, lgStopCh, lgErrors, lgCheckers, lgLoops, lgHw,
                   lgMutex, lgCallback, lgStopPc, lgChanges, lgLast>>

\* a handler goroutine that takes the signal and leaves shutdownCh open
setupSignalHandlingIgnore ==
    /\ cliHandler = "recv"
    /\ cliSigCh # <<>>
    /\ cliHandler' = Head(cliSigCh)
    /\ cliSigCh' = Tail(cliSigCh)
    /\ UNCHANGED <<pc, ctxDone, device, deviceInfo, connected, local, tokenRet, rpc, rdev,
                   rdata, dataChan, errorChan, buffer, sinceActivity, bufSrc,
                   terminationChar, stopPc, stopCalls, hw, hwInfo, openHandles, nextHandle,
                   goneHandles, nReads, broker, haKnown, events, smConfigs, smScanners,
                   smStopCh, smSess, smPc, smIdx, smConnected, smDisconnected, smResult,
                   smStopCalls, smPanicked, smOpenable, smProbed, brPhase, transport,
                   cConnected, onConnectSet, haScanners, haConnected, sess, retBridge,
                   retEntityConfig, retAvail, retConfig, lastSet, seenConnect, mapOp,
                   mapAcc, diagSummary, diagConn, wire, pubOp, pubId, pubRet, pubCalls,
                   svPc, svIdx, svLog, svConnected, svRet, clPc, clConn, clRan, clPending,
                   hid, hidTerm, hidPrev, cliPc, cliShutdownCh, cliStops, cliSignals, cwr,
                   sel, lgPc, lgDevice, lgStopCh, lgErrors, lgCheckers, lgLoops, lgHw,
                   lgMutex, lgCallback, lgStopPc, lgChanges, lgLast>>

\* setupSignalHandling's goroutine: sig := <-sigCh; close(shutdownCh); return
setupSignalHandling ==
    /\ cliHandler = "recv"
    /\ cliSigCh # <<>>
    /\ cliHandler' = Head(cliSigCh)
    /\ cliSigCh' = Tail(cliSigCh)
    /\ cliShutdownCh' = "closed"
    /\ UNCHANGED <<pc, ctxDone, device, deviceInfo, connected, local, tokenRet, rpc, rdev,
                   rdata, dataChan, errorChan, buffer, sinceActivity, bufSrc,
                   terminationChar, stopPc, stopCalls, hw, hwInfo, openHandles, nextHandle,
                   goneHandles, nReads, broker, haKnown, events, smConfigs, smScanners,
                   smStopCh, smSess, smPc, smIdx, smConnected, smDisconnected, smResult,
                   smStopCalls, smPanicked, smOpenable, smProbed, brPhase, transport,
                   cConnected, onConnectSet, haScanners, haConnected, sess, retBridge,
                   retEntityConfig, retAvail, retConfig, lastSet, seenConnect, mapOp,
                   mapAcc, diagSummary, diagConn, wire, pubOp, pubId, pubRet, pubCalls,
                   svPc, svIdx, svLog, svConnected, svRet, clPc, clConn, clRan, clPending,
                   hid, hidTerm, hidPrev, cliPc, cliStops, cliSignals, cwr, sel, lgPc,
                   lgDevice, lgStopCh, lgErrors, lgCheckers, lgLoops, lgHw, lgMutex,
                   lgCallback, lgStopPc, lgChanges, lgLast>>

\* runApp from c.app.Start() on: Start, <-shutdownCh, return c.app.Stop()
runApp ==
    \/ /\ cliPc = "start"
       /\ cliPc' \in {"wait", "failed"}
       /\ UNCHANGED cliStops
       /\ UNCHANGED <<pc, ctxDone, device, deviceInfo, connected, local, tokenRet, rpc, rdev,
                      rdata, dataChan, errorChan, buffer, sinceActivity, bufSrc,
                      terminationChar, stopPc, stopCalls, hw, hwInfo, openHandles, nextHandle,
                      goneHandles, nReads, broker, haKnown, events, smConfigs, smScanners,
                      smStopCh, smSess, smPc, smIdx, smConnected, smDisconnected, smResult,
                      smStopCalls, smPanicked, smOpenable, smProbed, brPhase, transport,
                      cConnected, onConnectSet, haScanners, haConnected, sess, retBridge,
                      retEntityConfig, retAvail, retConfig, lastSet, seenConnect, mapOp,
                      mapAcc, diagSummary, diagConn, wire, pubOp, pubId, pubRet, pubCalls,
                      svPc, svIdx, svLog, svConnected, svRet, clPc, clConn, clRan, clPending,
                      hid, hidTerm, hidPrev, cliSigCh, cliHandler, cliShutdownCh, cliSignals,
                      cwr, sel, lgPc, lgDevice, lgStopCh, lgErrors, lgCheckers, lgLoops, lgHw,
                      lgMutex, lgCallback, lgStopPc, lgChanges, lgLast>>
    \/ /\ cliPc = "wait"
       /\ cliShutdownCh = "closed"
       /\ cliPc' = "stop"
       /\ cliStops' = cliStops + 1
       /\ UNCHANGED <<pc, ctxDone, device, deviceInfo, connected, local, tokenRet, rpc, rdev,
                      rdata, dataChan, errorChan, buffer, sinceActivity, bufSrc,
                      terminationChar, stopPc, stopCalls, hw, hwInfo, openHandles, nextHandle,
                      goneHandles, nReads, broker, haKnown, events, smConfigs, smScanners,
                      smStopCh, smSess, smPc, smIdx, smConnected, smDisconnected, smResult,
                      smStopCalls, smPanicked, smOpenable, smProbed, brPhase, transport,
                      cConnected, onConnectSet, haScanners, haConnected, sess, retBridge,
                      retEntityConfig, retAvail, retConfig, lastSet, seenConnect, mapOp,
                      mapAcc, diagSummary, diagConn, wire, pubOp, pubId, pubRet, pubCalls,
                      svPc, svIdx, svLog, svConnected, svRet, clPc, clConn, clRan, clPending,
                      hid, hidTerm, hidPrev, cliSigCh, cliHandler, cliShutdownCh, cliSignals,
                      cwr, sel, lgPc, lgDevice, lgStopCh, lgErrors, lgCheckers, lgLoops, lgHw,
                      lgMutex, lgCallback, lgStopPc, lgChanges, lgLast>>
    \/ /\ cliPc = "stop"
       /\ cliPc' = "done"
       /\ UNCHANGED cliStops
       /\ UNCHANGED <<pc, ctxDone, device, deviceInfo, connected, local, tokenRet, rpc, rdev,
                      rdata, dataChan, errorChan, buffer, sinceActivity, bufSrc,
                      terminationChar, stopPc, stopCalls, hw, hwInfo, openHandles, nextHandle,
                      goneHandles, nReads, broker, haKnown, events, smConfigs, smScanners,
                      smStopCh, smSess, smPc, smIdx, smConnected, smDisconnected, smResult,
                      smStopCalls, smPanicked, smOpenable, smProbed, brPhase, transport,
                      cConnected, onConnectSet, haScanners, haConnected, sess, retBridge,
                      retEntityConfig, retAvail, retConfig, lastSet, seenConnect, mapOp,
                      mapAcc, diagSummary, diagConn, wire, pubOp, pubId, pubRet, pubCalls,
                      svPc, svIdx, svLog, svConnected, svRet, clPc, clConn, clRan, clPending,
                      hid, hidTerm, hidPrev, cliSigCh, cliHandler, cliShutdownCh, cliSignals,
                      cwr, sel, lgPc, lgDevice, lgStopCh, lgErrors, lgCheckers, lgLoops, lgHw,
                      lgMutex, lgCallback, lgStopPc, lgChanges, lgLast>>

NextCLI ==
    \/ \E sig \in {"SIGINT", "SIGTERM"} : signalNotify(sig)
    \/ setupSignalHandling
    \/ runApp

SpecCLI ==
    InitBridge /\ [][NextCLI]_vars /\ WF_vars(setupSignalHandling) /\ WF_vars(runApp)

\* ============================= scanner.go: readLoop and timeoutChecker
InitLegacy ==
    /\ lgPc = "new"
    /\ lgDevice = FALSE
    /\ lgStopCh = "open"
    /\ lgErrors = 0
    /\ lgCheckers = [c \in 1..MaxEpochs |-> "none"]
    /\ lgLoops = 0
    /\ lgHw \in BOOLEAN
    /\ lgMutex = "free"
    /\ lgCallback \in {"none", "accessors"}
    /\ lgStopPc = "idle"
    /\ lgChanges = <<>>
    /\ lgLast = FALSE
    /\ IdleSession
    /\ IdleManager
    /\ NewBridge
    /\ IdleMapTasks
    /\ NewHIDProcessor("enter")

\* BarcodeScanner.Start: deviceMonitor.Start (lastDevices), openDevice,
\* then callback(true) and go readLoopWithReconnect
lgStart ==
    /\ lgPc = "new"
    /\ lgStopCh = "open"
    /\ lgLast' = lgHw
    /\ IF lgHw
       THEN lgDevice' = TRUE /\ lgPc' = "cbTrue"
       ELSE lgPc' = "failed" /\ UNCHANGED lgDevice
    /\ UNCHANGED <<pc, ctxDone, device, deviceInfo, connected, local, tokenRet, rpc, rdev,
                   rdata, dataChan, errorChan, buffer, sinceActivity, bufSrc,
                   terminationChar, stopPc, stopCalls, hw, hwInfo, openHandles, nextHandle,
                   goneHandles, nReads, broker, haKnown, events, smConfigs, smScanners,
                   smStopCh, smSess, smPc, smIdx, smConnected, smDisconnected, smResult,
                   smStopCalls, smPanicked, smOpenable, smProbed, brPhase, transport,
                   cConnected, onConnectSet, haScanners, haConnected, sess, retBridge,
                   retEntityConfig, retAvail, retConfig, lastSet, seenConnect, mapOp,
                   mapAcc, diagSummary, diagConn, wire, pubOp, pubId, pubRet, pubCalls,
                   svPc, svIdx, svLog, svConnected, svRet, clPc, clConn, clRan, clPending,
                   hid, hidTerm, hidPrev, cliPc, cliSigCh, cliHandler, cliShutdownCh,
                   cliStops, cliSignals, cwr, sel, lgStopCh, lgErrors, lgCheckers, lgLoops,
                   lgHw, lgMutex, lgCallback, lgStopPc, lgChanges>>

\* the callback returns to its caller: attemptReconnection unlocks
\* reconnectMutex and returns nil, so readLoop is entered next; Start goes on
\* to start the readLoopWithReconnect goroutine
callbackReturns ==
    IF lgMutex = "Lock"
    THEN lgMutex' = "free" /\ lgPc' = "enter"
    ELSE lgPc' = "loop" /\ UNCHANGED lgMutex

\* s.onConnectionChange(true): the connection handler runs; the handler of
\* handlers.go goes on to scannerInstance.IsConnected()
onConnectionChange ==
    /\ lgPc = "cbTrue"
    /\ IF lgCallback = "accessors"
       THEN lgPc' = "IsConnected" /\ UNCHANGED lgMutex
       ELSE callbackReturns
    /\ UNCHANGED <<pc, ctxDone, device, deviceInfo, connected, local, tokenRet, rpc, rdev,
                   rdata, dataChan, errorChan, buffer, sinceActivity, bufSrc,
                   terminationChar, stopPc, stopCalls, hw, hwInfo, openHandles, nextHandle,
                   goneHandles, nReads, broker, haKnown, events, smConfigs, smScanners,
                   smStopCh, smSess, smPc, smIdx, smConnected, smDisconnected, smResult,
                   smStopCalls, smPanicked, smOpenable, smProbed, brPhase, transport,
                   cConnected, onConnectSet, haScanners, haConnected, sess, retBridge,
                   retEntityConfig, retAvail, retConfig, lastSet, seenConnect, mapOp,
                   mapAcc, diagSummary, diagConn, wire, pubOp, pubId, pubRet, pubCalls,
                   svPc, svIdx, svLog, svConnected, svRet, clPc, clConn, clRan, clPending,
                   hid, hidTerm, hidPrev, cliPc, cliSigCh, cliHandler, cliShutdownCh,
                   cliStops, cliSignals, cwr, sel, lgDevice, lgStopCh, lgErrors,
                   lgCheckers, lgLoops, lgHw, lgCallback, lgStopPc, lgChanges, lgLast>>

\* IsConnected and GetConnectedDeviceInfo inside the handler: RLock of
\* reconnectMutex, which waits while the write lock is held
lgIsConnected ==
    /\ lgPc = "IsConnected"
    /\ lgMutex = "free"
    /\ callbackReturns
    /\ UNCHANGED <<pc, ctxDone, device, deviceInfo, connected, local, tokenRet, rpc, rdev,
                   rdata, dataChan, errorChan, buffer, sinceActivity, bufSrc,
                   terminationChar, stopPc, stopCalls, hw, hwInfo, openHandles, nextHandle,
                   goneHandles, nReads, broker, haKnown, events, smConfigs, smScanners,
                   smStopCh, smSess, smPc, smIdx, smConnected, smDisconnected, smResult,
                   smStopCalls, smPanicked, smOpenable, smProbed, brPhase, transport,
                   cConnected, onConnectSet, haScanners, haConnected, sess, retBridge,
                   retEntityConfig, retAvail, retConfig, lastSet, seenConnect, mapOp,
                   mapAcc, diagSummary, diagConn, wire, pubOp, pubId, pubRet, pubCalls,
                   svPc, svIdx, svLog, svConnected, svRet, clPc, clConn, clRan, clPending,
                   hid, hidTerm, hidPrev, cliPc, cliSigCh, cliHandler, cliShutdownCh,
                   cliStops, cliSignals, cwr, sel, lgDevice, lgStopCh, lgErrors,
                   lgCheckers, lgLoops, lgHw, lgCallback, lgStopPc, lgChanges, lgLast>>

\* readLoop entry: go s.timeoutChecker(), a fresh readStats
readLoopEnter ==
    /\ lgLoops' = lgLoops + 1
    /\ lgCheckers' = [lgCheckers EXCEPT ![lgLoops + 1] = "wait"]
    /\ lgErrors' = 0
    /\ lgPc' = "read"

\* readLoopWithReconnect: loop head, and the call of readLoop that follows
\* a successful attemptReconnection
readLoopWithReconnect ==
    /\ lgPc \in {"loop", "enter"}
    /\ IF lgPc = "enter"
       THEN readLoopEnter /\ UNCHANGED lgMutex
       ELSE IF lgStopCh = "closed"
       THEN lgPc' = "exit" /\ UNCHANGED <<lgLoops, lgCheckers, lgErrors, lgMutex>>
       ELSE IF ~lgDevice
       THEN /\ lgPc' = "reconnect"
            /\ lgMutex' = "Lock"
            /\ UNCHANGED <<lgLoops, lgCheckers, lgErrors>>
       ELSE lgLoops < MaxEpochs /\ readLoopEnter /\ UNCHANGED lgMutex
    /\ UNCHANGED <<pc, ctxDone, device, deviceInfo, connected, local, tokenRet, rpc, rdev,
                   rdata, dataChan, errorChan, buffer, sinceActivity, bufSrc,
                   terminationChar, stopPc, stopCalls, hw, hwInfo, openHandles, nextHandle,
                   goneHandles, nReads, broker, haKnown, events, smConfigs, smScanners,
                   smStopCh, smSess, smPc, smIdx, smConnected, smDisconnected, smResult,
                   smStopCalls, smPanicked, smOpenable, smProbed, brPhase, transport,
                   cConnected, onConnectSet, haScanners, haConnected, sess, retBridge,
                   retEntityConfig, retAvail, retConfig, lastSet, seenConnect, mapOp,
                   mapAcc, diagSummary, diagConn, wire, pubOp, pubId, pubRet, pubCalls,
                   svPc, svIdx, svLog, svConnected, svRet, clPc, clConn, clRan, clPending,
                   hid, hidTerm, hidPrev, cliPc, cliSigCh, cliHandler, cliShutdownCh,
                   cliStops, cliSignals, cwr, sel, lgDevice, lgStopCh, lgHw, lgCallback,
                   lgStopPc, lgChanges, lgLast>>

\* attemptReconnection, holding reconnectMutex: the stop signal ends it; a
\* change taken from deviceMonitor.Changes() that says 'available' leads to
\* openDevice and, when that succeeds, to callback(true)
attemptReconnection ==
    /\ lgPc = "reconnect"
    /\ \/ /\ lgStopCh = "closed"
          /\ lgMutex' = "free"
          /\ lgPc' = "loop"
          /\ UNCHANGED <<lgDevice, lgChanges>>
       \/ /\ lgChanges # <<>>
          /\ lgChanges' = Tail(lgChanges)
          /\ IF Head(lgChanges) /\ lgHw
             THEN /\ lgLoops < MaxEpochs
                  /\ lgDevice' = TRUE
                  /\ lgPc' = "cbTrue"
             ELSE UNCHANGED <<lgDevice, lgPc>>
          /\ UNCHANGED lgMutex
    /\ UNCHANGED <<pc, ctxDone, device, deviceInfo, connected, local, tokenRet, rpc, rdev,
                   rdata, dataChan, errorChan, buffer, sinceActivity, bufSrc,
                   terminationChar, stopPc, stopCalls, hw, hwInfo, openHandles, nextHandle,
                   goneHandles, nReads, broker, haKnown, events, smConfigs, smScanners,
                   smStopCh, smSess, smPc, smIdx, smConnected, smDisconnected, smResult,
                   smStopCalls, smPanicked, smOpenable, smProbed, brPhase, transport,
                   cConnected, onConnectSet, haScanners, haConnected, sess, retBridge,
                   retEntityConfig, retAvail, retConfig, lastSet, seenConnect, mapOp,
                   mapAcc, diagSummary, diagConn, wire, pubOp, pubId, pubRet, pubCalls,
                   svPc, svIdx, svLog, svConnected, svRet, clPc, clConn, clRan, clPending,
                   hid, hidTerm, hidPrev, cliPc, cliSigCh, cliHandler, cliShutdownCh,
                   cliStops, cliSignals, cwr, sel, lgStopCh, lgErrors, lgCheckers, lgLoops,
                   lgHw, lgCallback, lgStopPc, lgLast>>

\* readLoop: select on stopCh, the nil check, then device.Read with its
\* outcome: data handed to ProcessData, or an error counted
readLoop ==
    /\ lgPc = "read"
    /\ IF lgStopCh = "closed" THEN lgPc' = "loop" /\ UNCHANGED lgErrors
       ELSE IF ~lgDevice THEN lgPc' = "closing" /\ UNCHANGED lgErrors
       ELSE IF lgHw
       THEN lgErrors' = 0 /\ lgPc' \in {"read", "ProcessData"}
       ELSE /\ lgErrors' = lgErrors + 1
            /\ lgPc' = IF lgErrors + 1 >= maxConsecutiveErrors THEN "closing" ELSE "read"
    /\ UNCHANGED <<pc, ctxDone, device, deviceInfo, connected, local, tokenRet, rpc, rdev,
                   rdata, dataChan, errorChan, buffer, sinceActivity, bufSrc,
                   terminationChar, stopPc, stopCalls, hw, hwInfo, openHandles, nextHandle,
                   goneHandles, nReads, broker, haKnown, events, smConfigs, smScanners,
                   smStopCh, smSess, smPc, smIdx, smConnected, smDisconnected, smResult,
                   smStopCalls, smPanicked, smOpenable, smProbed, brPhase, transport,
                   cConnected, onConnectSet, haScanners, haConnected, sess, retBridge,
                   retEntityConfig, retAvail, retConfig, lastSet, seenConnect, mapOp,
                   mapAcc, diagSummary, diagConn, wire, pubOp, pubId, pubRet, pubCalls,
                   svPc, svIdx, svLog, svConnected, svRet, clPc, clConn, clRan, clPending,
                   hid, hidTerm, hidPrev, cliPc, cliSigCh, cliHandler, cliShutdownCh,
                   cliStops, cliSignals, cwr, sel, lgDevice, lgStopCh, lgCheckers, lgLoops,
                   lgHw, lgMutex, lgCallback, lgStopPc, lgChanges, lgLast>>

\* handleReadData: s.hidProcessor.ProcessData(data) returns
ProcessDataReturn ==
    /\ lgPc = "ProcessData"
    /\ lgPc' = "read"
    /\ UNCHANGED <<pc, ctxDone, device, deviceInfo, connected, local, tokenRet, rpc, rdev,
                   rdata, dataChan, errorChan, buffer, sinceActivity, bufSrc,
                   terminationChar, stopPc, stopCalls, hw, hwInfo, openHandles, nextHandle,
                   goneHandles, nReads, broker, haKnown, events, smConfigs, smScanners,
                   smStopCh, smSess, smPc, smIdx, smConnected, smDisconnected, smResult,
                   smStopCalls, smPanicked, smOpenable, smProbed, brPhase, transport,
                   cConnected, onConnectSet, haScanners, haConnected, sess, retBridge,
                   retEntityConfig, retAvail, retConfig, lastSet, seenConnect, mapOp,
                   mapAcc, diagSummary, diagConn, wire, pubOp, pubId, pubRet, pubCalls,
                   svPc, svIdx, svLog, svConnected, svRet, clPc, clConn, clRan, clPending,
                   hid, hidTerm, hidPrev, cliPc, cliSigCh, cliHandler, cliShutdownCh,
                   cliStops, cliSignals, cwr, sel, lgDevice, lgStopCh, lgErrors,
                   lgCheckers, lgLoops, lgHw, lgMutex, lgCallback, lgStopPc, lgChanges,
                   lgLast>>

\* readLoopWithReconnect: readLoop returned false: closeDevice (under
\* reconnectMutex), callback(false)
closeDevice ==
    /\ lgPc = "closing"
    /\ lgMutex = "free"
    /\ lgDevice' = FALSE
    /\ lgPc' = "loop"
    /\ UNCHANGED <<pc, ctxDone, device, deviceInfo, connected, local, tokenRet, rpc, rdev,
                   rdata, dataChan, errorChan, buffer, sinceActivity, bufSrc,
                   terminationChar, stopPc, stopCalls, hw, hwInfo, openHandles, nextHandle,
                   goneHandles, nReads, broker, haKnown, events, smConfigs, smScanners,
                   smStopCh, smSess, smPc, smIdx, smConnected, smDisconnected, smResult,
                   smStopCalls, smPanicked, smOpenable, smProbed, brPhase, transport,
                   cConnected, onConnectSet, haScanners, haConnected, sess, retBridge,
                   retEntityConfig, retAvail, retConfig, lastSet, seenConnect, mapOp,
                   mapAcc, diagSummary, diagConn, wire, pubOp, pubId, pubRet, pubCalls,
                   svPc, svIdx, svLog, svConnected, svRet, clPc, clConn, clRan, clPending,
                   hid, hidTerm, hidPrev, cliPc, cliSigCh, cliHandler, cliShutdownCh,
                   cliStops, cliSignals, cwr, sel, lgStopCh, lgErrors, lgCheckers, lgLoops,
                   lgHw, lgMutex, lgCallback, lgStopPc, lgChanges, lgLast>>

\* timeoutChecker c: case <-ticker.C: s.hidProcessor.CheckTimeout() begins
timeoutCheckerTick(c) ==
    /\ lgCheckers[c] = "wait"
    /\ lgCheckers' = [lgCheckers EXCEPT ![c] = "CheckTimeout"]
    /\ UNCHANGED <<pc, ctxDone, device, deviceInfo, connected, local, tokenRet, rpc, rdev,
                   rdata, dataChan, errorChan, buffer, sinceActivity, bufSrc,
                   terminationChar, stopPc, stopCalls, hw, hwInfo, openHandles, nextHandle,
                   goneHandles, nReads, broker, haKnown, events, smConfigs, smScanners,
                   smStopCh, smSess, smPc, smIdx, smConnected, smDisconnected, smResult,
                   smStopCalls, smPanicked, smOpenable, smProbed, brPhase, transport,
                   cConnected, onConnectSet, haScanners, haConnected, sess, retBridge,
                   retEntityConfig, retAvail, retConfig, lastSet, seenConnect, mapOp,
                   mapAcc, diagSummary, diagConn, wire, pubOp, pubId, pubRet, pubCalls,
                   svPc, svIdx, svLog, svConnected, svRet, clPc, clConn, clRan, clPending,
                   hid, hidTerm, hidPrev, cliPc, cliSigCh, cliHandler, cliShutdownCh,
                   cliStops, cliSignals, cwr, sel, lgPc, lgDevice, lgStopCh, lgErrors,
                   lgLoops, lgHw, lgMutex, lgCallback, lgStopPc, lgChanges, lgLast>>

\* timeoutChecker c: CheckTimeout returns
CheckTimeoutReturn(c) ==
    /\ lgCheckers[c] = "CheckTimeout"
    /\ lgCheckers' = [lgCheckers EXCEPT ![c] = "wait"]
    /\ UNCHANGED <<pc, ctxDone, device, deviceInfo, connected, local, tokenRet, rpc, rdev,
                   rdata, dataChan, errorChan, buffer, sinceActivity, bufSrc,
                   terminationChar, stopPc, stopCalls, hw, hwInfo, openHandles, nextHandle,
                   goneHandles, nReads, broker, haKnown, events, smConfigs, smScanners,
                   smStopCh, smSess, smPc, smIdx, smConnected, smDisconnected, smResult,
                   smStopCalls, smPanicked, smOpenable, smProbed, brPhase, transport,
                   cConnected, onConnectSet, haScanners, haConnected, sess, retBridge,
                   retEntityConfig, retAvail, retConfig, lastSet, seenConnect, mapOp,
                   mapAcc, diagSummary, diagConn, wire, pubOp, pubId, pubRet, pubCalls,
                   svPc, svIdx, svLog, svConnected, svRet, clPc, clConn, clRan, clPending,
                   hid, hidTerm, hidPrev, cliPc, cliSigCh, cliHandler, cliShutdownCh,
                   cliStops, cliSignals, cwr, sel, lgPc, lgDevice, lgStopCh, lgErrors,
                   lgLoops, lgHw, lgMutex, lgCallback, lgStopPc, lgChanges, lgLast>>

\* timeoutChecker c: case <-s.stopCh: return
timeoutCheckerStop(c) ==
    /\ lgCheckers[c] = "wait"
    /\ lgStopCh = "closed"
    /\ lgCheckers' = [lgCheckers EXCEPT ![c] = "exit"]
    /\ UNCHANGED <<pc, ctxDone, device, deviceInfo, connected, local, tokenRet, rpc, rdev,
                   rdata, dataChan, errorChan, buffer, sinceActivity, bufSrc,
                   terminationChar, stopPc, stopCalls, hw, hwInfo, openHandles, nextHandle,
                   goneHandles, nReads, broker, haKnown, events, smConfigs, smScanners,
                   smStopCh, smSess, smPc, smIdx, smConnected, smDisconnected, smResult,
                   smStopCalls, smPanicked, smOpenable, smProbed, brPhase, transport,
                   cConnected, onConnectSet, haScanners, haConnected, sess, retBridge,
                   retEntityConfig, retAvail, retConfig, lastSet, seenConnect, mapOp,
                   mapAcc, diagSummary, diagConn, wire, pubOp, pubId, pubRet, pubCalls,
                   svPc, svIdx, svLog, svConnected, svRet, clPc, clConn, clRan, clPending,
                   hid, hidTerm, hidPrev, cliPc, cliSigCh, cliHandler, cliShutdownCh,
                   cliStops, cliSignals, cwr, sel, lgPc, lgDevice, lgStopCh, lgErrors,
                   lgLoops, lgHw, lgMutex, lgCallback, lgStopPc, lgChanges, lgLast>>

\* BarcodeScanner.Stop of scanner.go: close(s.stopCh), deviceMonitor.Stop()
lgStop ==
    /\ lgStopCh = "open"
    /\ lgStopCh' = "closed"
    /\ lgStopPc' = "closeDevice"
    /\ UNCHANGED <<pc, ctxDone, device, deviceInfo, connected, local, tokenRet, rpc, rdev,
                   rdata, dataChan, errorChan, buffer, sinceActivity, bufSrc,
                   terminationChar, stopPc, stopCalls, hw, hwInfo, openHandles, nextHandle,
                   goneHandles, nReads, broker, haKnown, events, smConfigs, smScanners,
                   smStopCh, smSess, smPc, smIdx, smConnected, smDisconnected, smResult,
                   smStopCalls, smPanicked, smOpenable, smProbed, brPhase, transport,
                   cConnected, onConnectSet, haScanners, haConnected, sess, retBridge,
                   retEntityConfig, retAvail, retConfig, lastSet, seenConnect, mapOp,
                   mapAcc, diagSummary, diagConn, wire, pubOp, pubId, pubRet, pubCalls,
                   svPc, svIdx, svLog, svConnected, svRet, clPc, clConn, clRan, clPending,
                   hid, hidTerm, hidPrev, cliPc, cliSigCh, cliHandler, cliShutdownCh,
                   cliStops, cliSignals, cwr, sel, lgPc, lgDevice, lgErrors, lgCheckers,
                   lgLoops, lgHw, lgMutex, lgCallback, lgChanges, lgLast>>

\* BarcodeScanner.Stop: closeDevice, once it has reconnectMutex
lgStopCloseDevice ==
    /\ lgStopPc = "closeDevice"
    /\ lgMutex = "free"
    /\ lgDevice' = FALSE
    /\ lgStopPc' = "done"
    /\ UNCHANGED <<pc, ctxDone, device, deviceInfo, connected, local, tokenRet, rpc, rdev,
                   rdata, dataChan, errorChan, buffer, sinceActivity, bufSrc,
                   terminationChar, stopPc, stopCalls, hw, hwInfo, openHandles, nextHandle,
                   goneHandles, nReads, broker, haKnown, events, smConfigs, smScanners,
                   smStopCh, smSess, smPc, smIdx, smConnected, smDisconnected, smResult,
                   smStopCalls, smPanicked, smOpenable, smProbed, brPhase, transport,
                   cConnected, onConnectSet, haScanners, haConnected, sess, retBridge,
                   retEntityConfig, retAvail, retConfig, lastSet, seenConnect, mapOp,
                   mapAcc, diagSummary, diagConn, wire, pubOp, pubId, pubRet, pubCalls,
                   svPc, svIdx, svLog, svConnected, svRet, clPc, clConn, clRan, clPending,
                   hid, hidTerm, hidPrev, cliPc, cliSigCh, cliHandler, cliShutdownCh,
                   cliStops, cliSignals, cwr, sel, lgPc, lgStopCh, lgErrors, lgCheckers,
                   lgLoops, lgHw, lgMutex, lgCallback, lgChanges, lgLast>>

\* the device is plugged or unplugged
lgDeviceChange ==
    /\ lgHw' = ~lgHw
    /\ UNCHANGED <<pc, ctxDone, device, deviceInfo, connected, local, tokenRet, rpc, rdev,
                   rdata, dataChan, errorChan, buffer, sinceActivity, bufSrc,
                   terminationChar, stopPc, stopCalls, hw, hwInfo, openHandles, nextHandle,
                   goneHandles, nReads, broker, haKnown, events, smConfigs, smScanners,
                   smStopCh, smSess, smPc, smIdx, smConnected, smDisconnected, smResult,
                   smStopCalls, smPanicked, smOpenable, smProbed, brPhase, transport,
                   cConnected, onConnectSet, haScanners, haConnected, sess, retBridge,
                   retEntityConfig, retAvail, retConfig, lastSet, seenConnect, mapOp,
                   mapAcc, diagSummary, diagConn, wire, pubOp, pubId, pubRet, pubCalls,
                   svPc, svIdx, svLog, svConnected, svRet, clPc, clConn, clRan, clPending,
                   hid, hidTerm, hidPrev, cliPc, cliSigCh, cliHandler, cliShutdownCh,
                   cliStops, cliSignals, cwr, sel, lgPc, lgDevice, lgStopCh, lgErrors,
                   lgCheckers, lgLoops, lgMutex, lgCallback, lgStopPc, lgChanges, lgLast>>

\* DeviceMonitor.monitorLoop, one tick that finds the availability changed:
\* a send on changesCh that is skipped when the channel is full
monitorLoop ==
    /\ lgPc # "new"
    /\ lgStopCh = "open"
    /\ lgLast # lgHw
    /\ lgLast' = lgHw
    /\ lgChanges' = IF Len(lgChanges) < ChangesChanCap
                    THEN Append(lgChanges, lgHw) ELSE lgChanges
    /\ UNCHANGED <<pc, ctxDone, device, deviceInfo, connected, local, tokenRet, rpc, rdev,
                   rdata, dataChan, errorChan, buffer, sinceActivity, bufSrc,
                   terminationChar, stopPc, stopCalls, hw, hwInfo, openHandles, nextHandle,
                   goneHandles, nReads, broker, haKnown, events, smConfigs, smScanners,
                   smStopCh, smSess, smPc, smIdx, smConnected, smDisconnected, smResult,
                   smStopCalls, smPanicked, smOpenable, smProbed, brPhase, transport,
                   cConnected, onConnectSet, haScanners, haConnected, sess, retBridge,
                   retEntityConfig, retAvail, retConfig, lastSet, seenConnect, mapOp,
                   mapAcc, diagSummary, diagConn, wire, pubOp, pubId, pubRet, pubCalls,
                   svPc, svIdx, svLog, svConnected, svRet, clPc, clConn, clRan, clPending,
                   hid, hidTerm, hidPrev, cliPc, cliSigCh, cliHandler, cliShutdownCh,
                   cliStops, cliSignals, cwr, sel, lgPc, lgDevice, lgStopCh, lgErrors,
                   lgCheckers, lgLoops, lgHw, lgMutex, lgCallback, lgStopPc>>

NextLegacy ==
    \/ lgStart \/ onConnectionChange \/ lgIsConnected \/ readLoopWithReconnect
    \/ attemptReconnection \/ readLoop
    \/ ProcessDataReturn \/ closeDevice \/ lgStop \/ lgStopCloseDevice
    \/ lgDeviceChange \/ monitorLoop
    \/ \E c \in 1..MaxEpochs : timeoutCheckerTick(c)
    \/ \E c \in 1..MaxEpochs : CheckTimeoutReturn(c)
    \/ \E c \in 1..MaxEpochs : timeoutCheckerStop(c)

SpecLegacy == InitLegacy /\ [][NextLegacy]_vars

\* tasks that are executing ProcessData or CheckTimeout on s.hidProcessor
InDecoder ==
    (IF lgPc = "ProcessData" THEN {<<"readLoop", 0>>} ELSE {})
        \cup {<<"timeoutChecker", c>> : c \in {d \in 1..MaxEpochs : lgCheckers[d] = "CheckTimeout"}}

\* C12: the decoder has a single consumer: at most one task at a time
\* executes ProcessData or CheckTimeout on it.
C12_SingleConsumer == Cardinality(InDecoder) <= 1

\* ================================================ HIDProcessor on its own
InitDecoder ==
    /\ \E term \in {"enter", "tab", "none"} : NewHIDProcessor(term)
    /\ IdleSession
    /\ IdleManager
    /\ NewBridge
    /\ IdleMapTasks
    /\ IdleLegacy

\* keyboard reports: space, tab, 'a', enter, space then enter, too short
DecoderReports ==
    {<<0, 0, hidKeySpace>>, <<0, 0, hidKeyTab>>, <<0, 0, hidKeyMin>>,
     <<0, 0, hidKeyEnter>>, <<0, 0, hidKeySpace, hidKeyEnter>>, <<0, 0>>}

\* the read loop hands a report to HIDProcessor.ProcessData
hidProcessData(data) ==
    /\ Len(hid.buf) + Len(data) - 2 <= MaxKeys
    /\ Len(ProcessData(hid, hidTerm, data).out) <= MaxScans
    /\ hid' = ProcessData(hid, hidTerm, data)
    /\ hidPrev' = hid.buf
    /\ UNCHANGED <<pc, ctxDone, device, deviceInfo, connected, local, tokenRet, rpc, rdev,
                   rdata, dataChan, errorChan, buffer, sinceActivity, bufSrc,
                   terminationChar, stopPc, stopCalls, hw, hwInfo, openHandles, nextHandle,
                   goneHandles, nReads, broker, haKnown, events, smConfigs, smScanners,
                   smStopCh, smSess, smPc, smIdx, smConnected, smDisconnected, smResult,
                   smStopCalls, smPanicked, smOpenable, smProbed, brPhase, transport,
                   cConnected, onConnectSet, haScanners, haConnected, sess, retBridge,
                   retEntityConfig, retAvail, retConfig, lastSet, seenConnect, mapOp,
                   mapAcc, diagSummary, diagConn, wire, pubOp, pubId, pubRet, pubCalls,
                   svPc, svIdx, svLog, svConnected, svRet, clPc, clConn, clRan, clPending,
                   hidTerm, cliPc, cliSigCh, cliHandler, cliShutdownCh, cliStops,
                   cliSignals, cwr, sel, lgPc, lgDevice, lgStopCh, lgErrors, lgCheckers,
                   lgLoops, lgHw, lgMutex, lgCallback, lgStopPc, lgChanges, lgLast>>

\* the ticker calls HIDProcessor.CheckTimeout
hidCheckTimeout ==
    /\ Len(CheckTimeout(hid).out) <= MaxScans
    /\ hid' = CheckTimeout(hid)
    /\ hidPrev' = hid.buf
    /\ UNCHANGED <<pc, ctxDone, device, deviceInfo, connected, local, tokenRet, rpc, rdev,
                   rdata, dataChan, errorChan, buffer, sinceActivity, bufSrc,
                   terminationChar, stopPc, stopCalls, hw, hwInfo, openHandles, nextHandle,
                   goneHandles, nReads, broker, haKnown, events, smConfigs, smScanners,
                   smStopCh, smSess, smPc, smIdx, smConnected, smDisconnected, smResult,
                   smStopCalls, smPanicked, smOpenable, smProbed, brPhase, transport,
                   cConnected, onConnectSet, haScanners, haConnected, sess, retBridge,
                   retEntityConfig, retAvail, retConfig, lastSet, seenConnect, mapOp,
                   mapAcc, diagSummary, diagConn, wire, pubOp, pubId, pubRet, pubCalls,
                   svPc, svIdx, svLog, svConnected, svRet, clPc, clConn, clRan, clPending,
                   hidTerm, cliPc, cliSigCh, cliHandler, cliShutdownCh, cliStops,
                   cliSignals, cwr, sel, lgPc, lgDevice, lgStopCh, lgErrors, lgCheckers,
                   lgLoops, lgHw, lgMutex, lgCallback, lgStopPc, lgChanges, lgLast>>

\* more than the timeout passes since lastActivity
hidTimePasses ==
    /\ hid.since = 0
    /\ hid' = [hid EXCEPT !.since = 1]
    /\ UNCHANGED <<pc, ctxDone, device, deviceInfo, connected, local, tokenRet, rpc, rdev,
                   rdata, dataChan, errorChan, buffer, sinceActivity, bufSrc,
                   terminationChar, stopPc, stopCalls, hw, hwInfo, openHandles, nextHandle,
                   goneHandles, nReads, broker, haKnown, events, smConfigs, smScanners,
                   smStopCh, smSess, smPc, smIdx, smConnected, smDisconnected, smResult,
                   smStopCalls, smPanicked, smOpenable, smProbed, brPhase, transport,
                   cConnected, onConnectSet, haScanners, haConnected, sess, retBridge,
                   retEntityConfig, retAvail, retConfig, lastSet, seenConnect, mapOp,
                   mapAcc, diagSummary, diagConn, wire, pubOp, pubId, pubRet, pubCalls,
                   svPc, svIdx, svLog, svConnected, svRet, clPc, clConn, clRan, clPending,
                   hidTerm, hidPrev, cliPc, cliSigCh, cliHandler, cliShutdownCh, cliStops,
                   cliSignals, cwr, sel, lgPc, lgDevice, lgStopCh, lgErrors, lgCheckers,
                   lgLoops, lgHw, lgMutex, lgCallback, lgStopPc, lgChanges, lgLast>>

NextDecoder ==
    \/ \E data \in DecoderReports : hidProcessData(data)
    \/ hidCheckTimeout
    \/ hidTimePasses

SpecDecoder == InitDecoder /\ [][NextDecoder]_vars

\* ------------------------------------------- the buffer filled to capacity
\* a report of six letters, of one letter, or of the enter key reaches
\* HIDProcessor.ProcessData
hidFill(data) ==
    /\ Len(ProcessData(hid, hidTerm, data).out) <= MaxScans
    /\ hid' = ProcessData(hid, hidTerm, data)
    /\ hidPrev' = hid.buf
    /\ UNCHANGED <<pc, ctxDone, device, deviceInfo, connected, local, tokenRet, rpc, rdev,
                   rdata, dataChan, errorChan, buffer, sinceActivity, bufSrc,
                   terminationChar, stopPc, stopCalls, hw, hwInfo, openHandles, nextHandle,
                   goneHandles, nReads, broker, haKnown, events, smConfigs, smScanners,
                   smStopCh, smSess, smPc, smIdx, smConnected, smDisconnected, smResult,
                   smStopCalls, smPanicked, smOpenable, smProbed, brPhase, transport,
                   cConnected, onConnectSet, haScanners, haConnected, sess, retBridge,
                   retEntityConfig, retAvail, retConfig, lastSet, seenConnect, mapOp,
                   mapAcc, diagSummary, diagConn, wire, pubOp, pubId, pubRet, pubCalls,
                   svPc, svIdx, svLog, svConnected, svRet, clPc, clConn, clRan, clPending,
                   hidTerm, cliPc, cliSigCh, cliHandler, cliShutdownCh, cliStops,
                   cliSignals, cwr, sel, lgPc, lgDevice, lgStopCh, lgErrors, lgCheckers,
                   lgLoops, lgHw, lgMutex, lgCallback, lgStopPc, lgChanges, lgLast>>

NextFill ==
    \E data \in {<<0, 0, hidKeyMin, hidKeyMin, hidKeyMin, hidKeyMin, hidKeyMin, hidKeyMin>>,
                 <<0, 0, hidKeyMin>>, <<0, 0, hidKeyEnter>>} : hidFill(data)

SpecFill == InitBridge /\ [][NextFill]_vars

\* ======================================================= device selection
\* what hid.Enumerate(0, 0) may report: up to MaxDevices devices, each with
\* its ids and whether deviceInfo.Open() succeeds on it
HidDevices ==
    [VendorID : {1}, ProductID : {1, 2}, Serial : {"A", "B"},
     Interface : {0, 1}, OpenOk : BOOLEAN]

HidLists == UNION {[1..n -> HidDevices] : n \in 0..MaxDevices}

\* the session's identification: requiredSerial "" and requiredInterface -1
\* (a nil *int) mean 'not specified'
SelConfigs ==
    [vendorID : {1}, productID : {1}, requiredSerial : {"", "A"},
     requiredInterface : {-1, 1}]

\* part_010 isTargetDevice
isTargetDevice(s, d) ==
    IF d.VendorID # s.vendorID \/ d.ProductID # s.productID THEN FALSE
    ELSE IF s.requiredSerial # "" /\ d.Serial # s.requiredSerial THEN FALSE
    ELSE IF s.requiredInterface # -1 /\ d.Interface # s.requiredInterface THEN FALSE
    ELSE TRUE

\* scanner.go isTargetDevice: ids and, when required, the serial
isTargetDeviceSerial(s, d) ==
    IF d.VendorID # s.vendorID \/ d.ProductID # s.productID THEN FALSE
    ELSE IF s.requiredSerial # "" THEN d.Serial = s.requiredSerial
    ELSE TRUE

\* hid.Enumerate(vid, pid) lists the devices with these ids (0 matches any)
Enumerated(vid, pid, d) ==
    (vid = 0 \/ d.VendorID = vid) /\ (pid = 0 \/ d.ProductID = pid)

\* part_010 findAndOpenDevice from the i-th device on: the index of the device
\* it opened, or 0 for the '... not found' error
RECURSIVE findAndOpenDeviceFrom(_, _, _)
findAndOpenDeviceFrom(s, devices, i) ==
    IF i > Len(devices) THEN 0
    ELSE IF ~Enumerated(s.vendorID, s.productID, devices[i])
    THEN findAndOpenDeviceFrom(s, devices, i + 1)
    ELSE IF isTargetDevice(s, devices[i]) /\ devices[i].OpenOk THEN i
    ELSE findAndOpenDeviceFrom(s, devices, i + 1)

\* scanner.go openDevice from the i-th device on: the index of the device it
\* opened, 0 for a '... not found' error, -1 for 'failed to open device'
RECURSIVE openDeviceFrom(_, _, _)
openDeviceFrom(s, devices, i) ==
    IF i > Len(devices) THEN 0
    ELSE IF ~isTargetDeviceSerial(s, devices[i])
    THEN openDeviceFrom(s, devices, i + 1)
    ELSE IF devices[i].OpenOk THEN i
    ELSE -1

\* a call of findAndOpenDevice (part_010)
selFindAndOpenDevice ==
    /\ sel.fn = "none"
    /\ \E s \in SelConfigs, devices \in HidLists :
          sel' = [fn |-> "findAndOpenDevice", s |-> s, devices |-> devices,
                  res |-> findAndOpenDeviceFrom(s, devices, 1)]
    /\ UNCHANGED <<pc, ctxDone, device, deviceInfo, connected, local, tokenRet, rpc, rdev,
                   rdata, dataChan, errorChan, buffer, sinceActivity, bufSrc,
                   terminationChar, stopPc, stopCalls, hw, hwInfo, openHandles, nextHandle,
                   goneHandles, nReads, broker, haKnown, events, smConfigs, smScanners,
                   smStopCh, smSess, smPc, smIdx, smConnected, smDisconnected, smResult,
                   smStopCalls, smPanicked, smOpenable, smProbed, brPhase, transport,
                   cConnected, onConnectSet, haScanners, haConnected, sess, retBridge,
                   retEntityConfig, retAvail, retConfig, lastSet, seenConnect, mapOp,
                   mapAcc, diagSummary, diagConn, wire, pubOp, pubId, pubRet, pubCalls,
                   svPc, svIdx, svLog, svConnected, svRet, clPc, clConn, clRan, clPending,
                   hid, hidTerm, hidPrev, cliPc, cliSigCh, cliHandler, cliShutdownCh,
                   cliStops, cliSignals, cwr, lgPc, lgDevice, lgStopCh, lgErrors,
                   lgCheckers, lgLoops, lgHw, lgMutex, lgCallback, lgStopPc, lgChanges,
                   lgLast>>

\* a call of openDevice (scanner.go), whose session has no requiredInterface
selOpenDevice ==
    /\ sel.fn = "none"
    /\ \E s \in {c \in SelConfigs : c.requiredInterface = -1}, devices \in HidLists :
          sel' = [fn |-> "openDevice", s |-> s, devices |-> devices,
                  res |-> openDeviceFrom(s, devices, 1)]
    /\ UNCHANGED <<pc, ctxDone, device, deviceInfo, connected, local, tokenRet, rpc, rdev,
                   rdata, dataChan, errorChan, buffer, sinceActivity, bufSrc,
                   terminationChar, stopPc, stopCalls, hw, hwInfo, openHandles, nextHandle,
                   goneHandles, nReads, broker, haKnown, events, smConfigs, smScanners,
                   smStopCh, smSess, smPc, smIdx, smConnected, smDisconnected, smResult,
                   smStopCalls, smPanicked, smOpenable, smProbed, brPhase, transport,
                   cConnected, onConnectSet, haScanners, haConnected, sess, retBridge,
                   retEntityConfig, retAvail, retConfig, lastSet, seenConnect, mapOp,
                   mapAcc, diagSummary, diagConn, wire, pubOp, pubId, pubRet, pubCalls,
                   svPc, svIdx, svLog, svConnected, svRet, clPc, clConn, clRan, clPending,
                   hid, hidTerm, hidPrev, cliPc, cliSigCh, cliHandler, cliShutdownCh,
                   cliStops, cliSignals, cwr, lgPc, lgDevice, lgStopCh, lgErrors,
                   lgCheckers, lgLoops, lgHw, lgMutex, lgCallback, lgStopPc, lgChanges,
                   lgLast>>

NextSelect == selFindAndOpenDevice \/ selOpenDevice

SpecSelect == InitBridge /\ [][NextSelect]_vars
\* ======================================================= session: claims
IsConn(ev, val) == ev.kind = "conn" /\ ev.val = val

EpochEvents(e) == SelectSeq(events, LAMBDA ev : ev.ep = e)

\* the handle of epoch e is closed and the session task has left the epoch
EpochOver(e) ==
    /\ e \notin openHandles
    /\ pc \in {"wait", "loop", "find", "exit"} \/ local.dev # e

\* C1: for every connection epoch the delivered events are one
\* onConnectionChange(true) first, then onScan events, and - once the epoch
\* has terminated, by a read error or by Stop - one onConnectionChange(false)
\* last; no onScan is delivered outside an epoch.
C1_EpochEvents ==
    /\ \A e \in 1..nextHandle :
          LET evs == EpochEvents(e)
          IN  /\ \A i \in 1..Len(evs) : IsConn(evs[i], TRUE) <=> i = 1
              /\ \A i \in 1..Len(evs) : IsConn(evs[i], FALSE) => i = Len(evs)
              /\ EpochOver(e) /\ evs # <<>> => IsConn(evs[Len(evs)], FALSE)
    /\ \A i \in 1..Len(events) :
          events[i].kind = "scan" => events[i].ep # Nil /\ events[i].open

\* C2: onScan callbacks are delivered in the order the reports were read, and
\* onConnectionChange(false) of an epoch is never delivered before a scan
\* produced by a report read in that epoch; connected=true of the epoch
\* precedes every such scan.
C2_ScanOrder ==
    \A i, j \in 1..Len(events) :
        i < j =>
          /\ events[i].kind = "scan" /\ events[j].kind = "scan"
                => events[i].n < events[j].n
          /\ IsConn(events[i], FALSE) /\ events[j].kind = "scan"
                => events[j].rep # events[i].ep
          /\ events[i].kind = "scan" /\ IsConn(events[j], TRUE)
                => events[i].rep # events[j].ep

\* C10: scan delivery never blocks on broker health: while the broker is
\* disconnected or not answering, the session task is not waiting on it.
C10_NeverWaitsOnBroker ==
    broker \in {"down", "stalled"} => pc # "tokenWait"

\* the Go scheduler runs every runnable goroutine, and a token that the broker
\* answers again and again does complete
SpecSessionBrokerFair ==
    /\ SpecSessionBroker
    /\ WF_vars(SessionTask)
    /\ WF_vars(ReaderTask)
    /\ SF_vars(tokenWait)

LastEvent(val) == events # <<>> /\ IsConn(events[Len(events)], val)

\* C6: when a read of a draining session fails, the session delivers
\* connected=false, and while the device is present it goes on to deliver
\* connected=true for a new epoch, with the descriptor read at that open.
C6_Reconnects ==
    /\ (errorChan # <<>>) ~> LastEvent(FALSE)
    /\ LastEvent(FALSE) ~> (LastEvent(TRUE) \/ hw = "absent" \/ nextHandle = MaxEpochs)

\* C20: the decoder never delivers an empty scan: a buffer that holds only
\* whitespace when it is finalised is dropped and nothing is delivered.
C20_NoEmptyScan ==
    [][/\ \A i \in 1..Len(hid'.out) : hid'.out[i] # <<>>
       /\ (hid.buf # <<>> /\ TrimSpace(hid.buf) = <<>> /\ hid'.buf = <<>>)
            => hid'.out = hid.out]_vars

\* a buffer of whitespace only was finalised and nothing was delivered for
\* it, after a scan had been delivered
C20_Witness ==
    /\ hidPrev # <<>>
    /\ TrimSpace(hidPrev) = <<>>
    /\ hid.buf = <<>>
    /\ Len(hid.out) = 1

\* C21: the buffer never holds more than cap(buffer) - 1 bytes; a mapped
\* byte that arrives when it is full is dropped and leaves the buffered
\* bytes as they are; a termination key is still accepted then and
\* finalises the buffered content.
C21_BufferBound ==
    /\ Len(hid.buf) <= BufferCap - 1
    /\ Len(hid.buf) = BufferCap - 1 =>
         /\ ProcessData(hid, hidTerm, <<0, 0, hidKeyMin>>) = hid
         /\ hidTerm = "enter" =>
              ProcessData(hid, hidTerm, <<0, 0, hidKeyEnter>>) =
                  [hid EXCEPT !.buf = <<>>, !.out = Append(@, TrimSpace(hid.buf))]

\* a full buffer was finalised by the termination key
C21_Witness ==
    /\ Len(hidPrev) = BufferCap - 1
    /\ hidTerm = "enter"
    /\ hid.buf = <<>>
    /\ hid.out = <<hidPrev>>

C26_HandlesClosed ==
    /\ pc = "find" => openHandles = {}
    /\ (pc = "exit" /\ stopPc = "idle" /\ stopCalls > 0) => openHandles = {}

\* C26, first half alone: the handle is closed before the next open attempt
C26_ClosedBeforeReopen == pc = "find" => openHandles = {}

\* the session task is at an open attempt that the bound on epochs cuts off
EpochsExhausted == pc = "find" /\ hw = "present" /\ nextHandle = MaxEpochs

\* C27: after Stop has returned, the session task and its reader task both
\* terminate, whatever they were doing when Stop was called.
C27_TasksTerminate ==
    (stopCalls > 0 /\ stopPc = "idle")
        ~> ((pc = "exit" /\ rpc \in {"none", "exit"}) \/ EpochsExhausted)

\* C27, the session task alone: it does terminate after Stop
C27_SessionTaskTerminates ==
    (stopCalls > 0 /\ stopPc = "idle") ~> (pc = "exit" \/ EpochsExhausted)

\* C29: in every state an observer can see through IsConnected and
\* GetConnectedDeviceInfo, the device handle and its descriptor are present
\* exactly when the connected flag is set.
C29_HandleIffConnected ==
    /\ device # Nil <=> connected = 1
    /\ deviceInfo # NilInfo <=> connected = 1

\* C31: a read error that is not a recognized timeout moves the session to
\* Disconnected on its first occurrence (scanner.go: the read loop leaves
\* for closeDevice at the first counted error).
C31_FirstErrorDisconnects ==
    [][lgErrors' > lgErrors => lgPc' = "closing"]_vars

\* C31 for the session of part_010: a read timeout changes nothing but the
\* reader's position, and a failed read is reported on errorChan at once
C31_ReaderTimeoutSilent ==
    [][/\ rpc = "read" /\ rpc' = "top"
          => UNCHANGED <<events, device, deviceInfo, connected, buffer,
                         dataChan, errorChan, openHandles>>
       /\ rpc = "read" /\ ~HandleValid(rdev) /\ rpc' # rpc => rpc' = "sendErr"
       /\ errorChan # <<>> /\ pc = "select" /\ errorChan' = <<>> => pc' = "disc1"]_vars

\* C33: ProcessData handles every non-zero keycode of a report in order,
\* keycodes after a termination keycode included: a report of the enter key
\* followed by 'a' finalizes the buffer and leaves 'a' buffered.
C33_KeysAfterTermination ==
    (hidTerm = "enter" /\ TrimSpace(hid.buf) # <<>>) =>
        LET d == ProcessData(hid, hidTerm, <<0, 0, hidKeyEnter, hidKeyMin>>)
        IN  /\ d.out = finalizeInput(hid).out
            /\ d.buf = <<keyCodeToChar(hidKeyMin, 0)>>

\* C33 without the termination keycode: every mapped keycode of a report is
\* appended in order, the shifted member when modifier & 0x22 is set
C33_KeysInOrder ==
    Len(hid.buf) + 2 < BufferCap =>
        /\ ProcessData(hid, "none", <<0, 0, hidKeyMin, 0, hidNumMin>>).buf
              = hid.buf \o <<97, 49>>
        /\ ProcessData(hid, "none", <<2, 0, hidKeyMin, 0, hidNumMin>>).buf
              = hid.buf \o <<65, 33>>
        /\ ProcessData(hid, "none", <<32, 0, 0, hidKeyMin>>).buf = hid.buf \o <<65>>

\* C34: after Stop has returned, the session delivers no further scan or
\* connection-change callback and does not open the device again.
C34_QuietAfterStop ==
    [][(stopCalls > 0 /\ stopPc = "idle")
          => (events' = events /\ nextHandle' = nextHandle)]_vars

\* C35: a barcode is built only from reports read in the epoch that emits
\* it: the decoder buffer is empty when the read loop of an epoch starts,
\* and every scan is emitted in the epoch of the report that completed it.
C35_NoBytesAcrossEpochs ==
    /\ pc = "readInit" => buffer = <<>>
    /\ \A i \in 1..Len(events) :
          events[i].kind = "scan" => events[i].rep = events[i].ep

\* C36: every report the reader read before a read error is processed
\* before the session emits connected=false: no keyboard report is waiting
\* in the data channel while the error is handled.
C36_NoReportDiscarded ==
    pc \in {"disc1", "disc2", "cbFalse"}
        => \A i \in 1..Len(dataChan) : isAllZeros(dataChan[i].data)

\* C37: a connection-change callback may call IsConnected and
\* GetConnectedDeviceInfo on its session without deadlock: it is never
\* invoked while the session holds the lock those accessors need.
C37_CallbackWithoutLock ==
    lgPc \in {"cbTrue", "IsConnected"} => lgMutex = "free"

\* C38: the latest availability change the device monitor observes is never
\* lost: after a tick that finds a change, the change is the last element of
\* the changes channel.
C38_LatestChangeKept ==
    [][lgLast' # lgLast /\ lgPc \notin {"new", "failed"}
          => lgChanges' # <<>> /\ lgChanges'[Len(lgChanges')] = lgLast']_vars

\* C39: at any time a session has at most one timeout-probe task: a
\* reconnect never leaves the timeout checker of a previous epoch running
\* next to the new one.
C39_OneTimeoutChecker ==
    Cardinality({c \in 1..MaxEpochs : lgCheckers[c] \in {"wait", "CheckTimeout"}}) <= 1
\* ======================================================== bridge: claims
\* C3: while the application runs, every scanner whose connect event has
\* been handled has a retained availability and a retained discovery config
\* on the broker, and that availability is "online" iff the Integration's
\* Connected flag of the scanner is true.
C3_AvailabilityMatchesFlag ==
    brPhase = "run" =>
        \A id \in ScannerIds :
            seenConnect[id] =>
                /\ retAvail[id] # "none"
                /\ retConfig[id]
                /\ retAvail[id] = "online" <=> haConnected[id]

\* C4: the connect callback of a re-established connection leaves the bridge
\* availability "online" and the discovery configs of the bridge entity and
\* of every known scanner retained, and afterwards every known scanner's
\* retained availability is that of its last SetScannerConnected call.
C4_ReconnectRepublishes ==
    [][transport = "down" /\ transport' = "up" /\ onConnectSet =>
          /\ retBridge' = "online"
          /\ retEntityConfig'
          /\ \A id \in haScanners :
                /\ retConfig'[id]
                /\ lastSet[id] # "none" => retAvail'[id] = Availability(lastSet[id] = "true")]_vars

\* C5: the retained bridge availability is "online" while the client is
\* connected and no graceful stop has begun, "offline" once a graceful stop
\* has completed, and "offline" after any other exit.
C5_BridgeAvailability ==
    /\ brPhase \in {"mqtt", "ha", "run"} /\ IsConnected => retBridge = "online"
    /\ brPhase = "stopped" => retBridge = "offline"
    /\ brPhase = "crashed" => retBridge = "offline"

AllOffline(avail, bridge) ==
    /\ bridge = "offline"
    /\ \A id \in haScanners : avail[id] = "offline"

\* C7: when Integration.Stop returns, and when StopAll has completed, the
\* retained availability of the bridge and of every known scanner is
\* "offline".
C7_StopPublishesOffline ==
    [][/\ brPhase = "stop1" /\ brPhase' = "stop2" => AllOffline(retAvail', retBridge')
       /\ brPhase' = "stopped" => AllOffline(retAvail', retBridge')]_vars

\* C13: a Client.Publish made while the client is not connected (never
\* connected, after a loss, after Disconnect) returns an error and hands
\* nothing to paho, so nothing is sent or queued, retained or not.
C13_PublishNotConnected ==
    [][(pubCalls' # pubCalls /\ pubOp' \in {"Publish", "PublishRetained"} /\ ~IsConnected)
         => (pubRet' = "error" /\ wire' = wire)]_vars

\* a retained Publish has failed after the connection was lost
C13_Witness ==
    /\ pubOp = "PublishRetained"
    /\ pubRet = "error"
    /\ brPhase = "run"
    /\ transport = "down"
    /\ wire = <<>>

Called(l) == {l[i] : i \in 1..Len(l)}

\* C15: StartAll connects the broker first and starts the Integration and
\* then the Scanner Manager only after WaitForConnection saw IsConnected
\* true; when the connect fails or the wait times out it returns an error
\* and starts neither.
C15_StartOrder ==
    [][/\ (svLog = <<>> /\ svLog' # <<>>) => svLog'[1][2] = "Connect"
       /\ (<<"mqtt", "WaitForConnection", "nil">> \in Called(svLog') \ Called(svLog))
            => svConnected
       /\ (\E r \in Results : <<"homeassistant", "Start", r>> \in Called(svLog') \ Called(svLog))
            => <<"mqtt", "WaitForConnection", "nil">> \in Called(svLog)
       /\ (\E r \in Results : <<"scanner", "Start", r>> \in Called(svLog') \ Called(svLog))
            => <<"homeassistant", "Start", "nil">> \in Called(svLog)
       /\ (\/ <<"mqtt", "Connect", "error">> \in Called(svLog')
           \/ <<"mqtt", "WaitForConnection", "error">> \in Called(svLog'))
            => /\ svRet' = "error"
               /\ \A c \in Called(svLog') : c[2] # "Start"]_vars

\* the wait timed out, StartAll returned the error with nothing started
C15_Witness ==
    /\ svPc = "startFailed"
    /\ svRet = "error"
    /\ svLog = <<(<<"mqtt", "Connect", "nil">>), (<<"mqtt", "WaitForConnection", "error">>)>>

\* the services whose Stop was called, in call order
Stopped == [i \in 1..Len(SelectSeq(svLog, LAMBDA c : c[2] = "Stop")) |->
              SelectSeq(svLog, LAMBDA c : c[2] = "Stop")[i][1]]

\* C16: StopAll calls Stop in reverse start order (Scanner Manager,
\* Integration, Broker); a Stop that returns an error does not keep the
\* later ones from being called.
C16_StopOrder ==
    /\ Len(Stopped) <= Len(order)
    /\ \A i \in 1..Len(Stopped) : Stopped[i] = order[Len(order) + 1 - i]
    /\ svPc = "stopped" => Len(Stopped) = Len(order)

\* StopAll has finished although the Scanner Manager's Stop failed
C16_Witness ==
    /\ svPc = "stopped"
    /\ <<"scanner", "Stop", "error">> \in Called(svLog)
    /\ <<"mqtt", "Stop", "nil">> \in Called(svLog)

\* C17: Client.IsConnected() is false initially, true only while the
\* transport is connected and the connect callback has run for the current
\* connection, false after a connection loss and after Disconnect.
C17_IsConnected ==
    /\ clPc = "new" => ~IsConnected
    /\ IsConnected => (transport = "up" /\ clRan = clConn)
    /\ transport = "down" => ~IsConnected
    /\ clPc = "disconnected" => ~IsConnected

\* C18: with at least one configured scanner, every published diagnostics
\* summary is "offline" iff no scanner had Connected set when it was
\* published, "online" iff every configured scanner had, "partial" otherwise.
C18_SummaryMatchesFlags ==
    diagSummary # "none" =>
        diagSummary = IF diagConn = {} THEN "offline"
                      ELSE IF diagConn = ScannerIds THEN "online"
                      ELSE "partial"

\* C19: SetScannerConnected(id, x) made twice in a row leaves the retained
\* topics and the Connected flags as one call does.
C19_SetConnectedIdempotent ==
    \A id \in ScannerIds, x \in BOOLEAN :
        LET once == SetScannerConnected(HaMaps, id, x)
            twice == SetScannerConnected(once, id, x)
        IN  /\ twice.avail = once.avail
            /\ twice.config = once.config
            /\ twice.conn = once.conn
            /\ twice.known = once.known

\* a known scanner has been set connected on a connected client, and
\* another one disconnected while the client was not connected
C19_Witness ==
    \E id, other \in ScannerIds :
        /\ IsConnected
        /\ id \in haScanners /\ haConnected[id] /\ retAvail[id] = "online"
        /\ other \in haScanners /\ lastSet[other] = "false" /\ retAvail[other] = "online"

\* C23: after a successful start Application.Stop runs exactly once when an
\* interrupt or terminate signal is received, however many signals arrive.
C23_StopOnce ==
    /\ [](cliStops <= 1)
    /\ [](cliStops = 1 => cliShutdownCh = "closed")
    /\ (cliPc = "wait" /\ cliSignals > 0) ~> (cliStops = 1)

\* Stop has run once although every signal of the run was sent
C23_Witness ==
    /\ cliPc = "done"
    /\ cliStops = 1
    /\ cliSignals = MaxSignals

\* C24: the broker never holds a scanner's discovery config without having
\* received a retained availability message for that scanner.
C24_AvailabilityBeforeConfig ==
    \A id \in ScannerIds : retConfig[id] => retAvail[id] # "none"

\* C25: every SetScannerConnected(id, x) on a known scanner publishes,
\* before it returns, the diagnostics summary computed from the updated
\* Connected flags.
C25_SummaryAfterSetConnected ==
    [][\A id \in ScannerIds :
         (lastSet'[id] # lastSet[id] /\ id \in haScanners') =>
            /\ diagConn' = {i \in haScanners' : haConnected'[i]}
            /\ diagSummary' =
                 getScannerSummaryStatus([known |-> haScanners', conn |-> haConnected'])]_vars


\* C28: the Client publishes no availability message of its own: the bridge
\* availability topic turns "online" only in a step in which the Integration's
\* connect callback is registered and runs.
C28_OnlineFromIntegration ==
    [][retBridge' = "online" /\ retBridge # "online" => onConnectSet']_vars

\* C30: whenever a session's connection callback runs with connected = true,
\* the manager's map still resolves the session's id (GetScanner is non-nil),
\* so the handler creates the session's Home Assistant device.
C30_CallbackFindsSession ==
    [][\A id \in ScannerIds :
          (sess[id] = "opened" /\ sess'[id] # "opened" /\ brPhase' = brPhase)
              => (brPhase = "run" /\ id \in haScanners')]_vars

\* the devices of a selection that match the ids, the serial and the
\* interface number when specified, and that can be opened
Openable ==
    {i \in 1..Len(sel.devices) :
        /\ sel.devices[i].VendorID = sel.s.vendorID
        /\ sel.devices[i].ProductID = sel.s.productID
        /\ sel.s.requiredSerial # "" => sel.devices[i].Serial = sel.s.requiredSerial
        /\ sel.s.requiredInterface # -1 => sel.devices[i].Interface = sel.s.requiredInterface
        /\ sel.devices[i].OpenOk}

\* C32: device selection opens the first acceptable device that can be
\* opened, going on to the next one after an open failure, and returns
\* 'not found' only when no acceptable device could be opened.
C32_FirstOpenable ==
    sel.fn # "none" =>
        IF Openable = {} THEN sel.res = 0
        ELSE sel.res \in Openable /\ \A i \in Openable : sel.res <= i

\* C32 for findAndOpenDevice of part_010 alone
C32_FindAndOpenFirstOpenable ==
    sel.fn = "findAndOpenDevice" =>
        IF Openable = {} THEN sel.res = 0
        ELSE sel.res \in Openable /\ \A i \in Openable : sel.res <= i

\* 2 to the power n
RECURSIVE Pow2(_)
Pow2(n) == IF n = 0 THEN 1 ELSE 2 * Pow2(n - 1)

\* C40: ConnectWithRetry makes at most maxRetries+1 attempts, sleeps
\* retryDelay, doubled after each failed attempt, before the next one, stops
\* at the first attempt that succeeds in time and returns nil, and returns
\* an error exactly when every one of its maxRetries+1 attempts failed.
C40_ConnectWithRetry ==
    LET n == Len(cwr.outcomes)
    IN  /\ n <= cwr.maxRetries + 1
        /\ Len(cwr.sleeps) = IF n = 0 THEN 0 ELSE n - 1
        /\ \A k \in 1..Len(cwr.sleeps) : cwr.sleeps[k] = cwr.delay0 * Pow2(k - 1)
        /\ \A k \in 1..(n - 1) : cwr.outcomes[k] # "ok"
        /\ cwr.ret = "nil" <=> (n > 0 /\ cwr.outcomes[n] = "ok")
        /\ cwr.ret = "error" <=>
              (n = cwr.maxRetries + 1 /\ \A k \in 1..n : cwr.outcomes[k] # "ok")
        /\ cwr.pc = "done" <=> cwr.ret # "none"

\* a call with three retries that failed three times, slept d, 2d and 4d,
\* and connected at its last attempt
C40_Witness ==
    /\ cwr.pc = "done"
    /\ cwr.maxRetries = MaxRetries
    /\ cwr.outcomes = <<"timeout", "error", "timeout", "ok">>
    /\ cwr.sleeps = <<cwr.delay0, 2 * cwr.delay0, 4 * cwr.delay0>>
    /\ cwr.ret = "nil"
====
